---- MODULE Spec2Model ----
(***************************************************************************)
(* Reconciliation of iCalendar invites and RSVPs against the event store   *)
(* (inbox/events/ical.py, inbox/models/event.py).                           *)
(*                                                                         *)
(* Strings the code takes apart (uids, public ids) are sequences of        *)
(* one-character strings; every other string is atomic.  Python's None is  *)
(* the string "None".                                                      *)
(***************************************************************************)
EXTENDS Integers, Sequences, FiniteSets, TLC

VARIABLES
    events,     \* the event table of the store, in insertion (row id) order
    actions,    \* the action log written by schedule_action
    ncalls,     \* how many reconciliation calls were made
    call,       \* the arguments of the reconciliation call last made
    pre,        \* the event table and the action log as that call found them
    once,       \* the event table after the first of two identical calls
    workers,    \* the two concurrent deliveries of the concurrent setting
    base,       \* the event table when the concurrent deliveries started
    ics,        \* the calendar document handed to events_from_ics
    parsed,     \* what events_from_ics returned or raised for that document
    raised,     \* the exception the last call let escape to its caller
    outbox,     \* the mails handed to the sendmail client
    returned,   \* what the last call of a query or constructor returned
    threads     \* the ImapThread rows of the session

vars == <<events, actions, ncalls, call, pre, once, workers, base,
          ics, parsed, raised, outbox, returned, threads>>

\* The variables of the parser, of the generator, of the mail client and of
\* the queries
icsVars == <<ics, parsed, raised, outbox, returned, threads>>

None == "None"

\* ---------------------------------------------------------------- bounds
MaxSeq == 1
MaxBatch == 2
MaxCalls == 2

\* ------------------------------------------------------- string helpers
\* str.lower() on one character
LowerChar(c) ==
    CASE c = "A" -> "a"
      [] c = "B" -> "b"
      [] c = "N" -> "n"
      [] c = "Y" -> "y"
      [] c = "L" -> "l"
      [] c = "S" -> "s"
      [] c = "C" -> "c"
      [] c = "O" -> "o"
      [] c = "M" -> "m"
      [] c = "D" -> "d"
      [] c = "E" -> "e"
      [] c = "F" -> "f"
      [] c = "I" -> "i"
      [] c = "P" -> "p"
      [] c = "Q" -> "q"
      [] c = "R" -> "r"
      [] c = "T" -> "t"
      [] c = "U" -> "u"
      [] c = "V" -> "v"
      [] OTHER -> c

\* str.lower()
Lower(s) == [i \in 1..Len(s) |-> LowerChar(s[i])]

\* str.lower() on a string that is kept whole
RECURSIVE LowerText(_)
LowerText(s) ==
    IF s = "" THEN ""
    ELSE LowerChar(SubSeq(s, 1, 1)) \o LowerText(SubSeq(s, 2, Len(s)))

\* the Python test `needle in s` on strings
Contains(s, needle) ==
    \E i \in 1..(Len(s) - Len(needle) + 1) :
        SubSeq(s, i, i + Len(needle) - 1) = needle

\* the Python slice s[:-n]
DropLast(s, n) == IF Len(s) <= n THEN <<>> ELSE SubSeq(s, 1, Len(s) - n)

NylasSuffix == <<"@", "n", "y", "l", "a", "s", ".", "c", "o", "m">>
NylasSuffixUpper == <<"@", "N", "Y", "L", "A", "S", ".", "C", "O", "M">>

Base36Chars == {"0", "1", "2", "3", "a", "b", "u", "v", "x"}

\* util.valid_base36: the id is a numeral of the local (base 36) alphabet
valid_base36(uid) == uid # <<>> /\ \A i \in 1..Len(uid) : uid[i] \in Base36Chars

\* ical.py _cleanup_nylas_uid
CleanupNylasUid(uid) ==
    IF Contains(Lower(uid), NylasSuffix) THEN DropLast(Lower(uid), 10) ELSE Lower(uid)

\* ------------------------------------------------------------ participants
ParticipantFields == {"email", "name", "status", "notes"}

Participant(email, name, status, notes) ==
    [email |-> email, name |-> name, status |-> status, notes |-> notes]

\* Event._merge_participant_attributes: the incoming participant overrides
\* only the fields it supplies
MergeParticipantAttributes(left, right) ==
    [f \in ParticipantFields |-> IF right[f] # None THEN right[f] ELSE left[f]]

RECURSIVE MergeInto(_, _)
MergeInto(existing, incoming) ==
    IF incoming = <<>> THEN existing
    ELSE LET p == Head(incoming)
             hit == \E j \in 1..Len(existing) : existing[j].email = p.email
             next == IF hit
                     THEN [j \in 1..Len(existing) |->
                              IF existing[j].email = p.email
                              THEN MergeParticipantAttributes(existing[j], p)
                              ELSE existing[j]]
                     ELSE Append(existing, p)
         IN MergeInto(next, Tail(incoming))

\* Event._partial_participants_merge(event)
PartialParticipantsMerge(existing_event, event) ==
    MergeInto(existing_event.participants, event.participants)

\* ------------------------------------------------------------------ events
EmailedCalendar == "emailed"
OtherCalendar == "other"

\* What one VEVENT carries besides UID, SEQUENCE and ATTENDEEs
ContentA ==
    [title |-> "Lunch", description |-> "None", location |-> "None",
     start |-> 10, end |-> 11, all_day |-> FALSE, recurrence |-> "None",
     status |-> "confirmed", last_modified |-> 1,
     owner |-> "None <o@x>", is_owner |-> FALSE]

ContentB ==
    [title |-> "Dinner", description |-> "bring wine", location |-> "home",
     start |-> 20, end |-> 30, all_day |-> TRUE, recurrence |-> "RRULE:FREQ=DAILY",
     status |-> "cancelled", last_modified |-> 2,
     owner |-> "Me <me@x>", is_owner |-> TRUE]

ParticipantsP == << Participant("p@x", "None", "yes", "None") >>
ParticipantsPQ == << Participant("p@x", "P", "noreply", "Guests: 2"),
                    Participant("q@x", "None", "no", "None") >>
ParticipantsReply == << Participant("p@x", "None", "yes", "None"),
                       Participant("q@x", "Q", "maybe", "None") >>

BodyA == [name |-> "a", content |-> ContentA, participants |-> ParticipantsP]
BodyB == [name |-> "b", content |-> ContentB, participants |-> ParticipantsPQ]
BodyR == [name |-> "r", content |-> ContentA, participants |-> ParticipantsReply]

Bodies == {BodyA, BodyB}

\* The Event that events_from_ics builds from one VEVENT, for the calendar
\* import_attached_events passes it (the emailed-events calendar)
ParsedEvent(uid, sequence, body) ==
    [calendar |-> EmailedCalendar,
     uid |-> uid,
     public_id |-> <<>>,
     raw_data |-> [uid |-> uid, sequence |-> sequence, body |-> body.name],
     title |-> body.content.title,
     description |-> body.content.description,
     location |-> body.content.location,
     reminders |-> "[]",
     recurrence |-> body.content.recurrence,
     start |-> body.content.start,
     end |-> body.content.end,
     busy |-> TRUE,
     all_day |-> body.content.all_day,
     read_only |-> TRUE,
     owner |-> body.content.owner,
     is_owner |-> body.content.is_owner,
     last_modified |-> body.content.last_modified,
     status |-> body.content.status,
     sequence_number |-> sequence,
     participants |-> body.participants,
     message |-> None]

\* Event.update
Update(self, event) ==
    [self EXCEPT
        !.uid = event.uid,
        !.raw_data = event.raw_data,
        !.title = event.title,
        !.description = event.description,
        !.location = event.location,
        !.start = event.start,
        !.end = event.end,
        !.all_day = event.all_day,
        !.owner = event.owner,
        !.is_owner = event.is_owner,
        !.read_only = event.read_only,
        !.participants = event.participants,
        !.busy = event.busy,
        !.reminders = event.reminders,
        !.recurrence = event.recurrence]

\* The public id HasPublicID gives the n-th row of the event table
Digit(n) ==
    CASE n = 0 -> "0" [] n = 1 -> "1" [] n = 2 -> "2" [] n = 3 -> "3"
      [] n = 4 -> "4" [] n = 5 -> "5" [] n = 6 -> "6" [] n = 7 -> "7"
      [] n = 8 -> "8" [] OTHER -> "9"

NewPublicId(n) == <<"x", Digit(n)>>

\* db_session flush: the pending events become rows of the event table
RECURSIVE Flush(_, _)
Flush(store, pending) ==
    IF pending = <<>> THEN store
    ELSE Flush(Append(store, [Head(pending) EXCEPT
                                 !.public_id = NewPublicId(Len(store) + 1)]),
               Tail(pending))

\* --------------------------------------------------------- process_invites
\* Rows the query of process_invites returns for one uid
InviteCandidates(store, uid) ==
    {i \in 1..Len(store) :
        store[i].calendar = EmailedCalendar /\ store[i].uid = uid}

\* existing_events_table: one row per uid; the query has no ORDER BY, so
\* which of several rows with one uid ends up in the dict is not determined
InviteTables(store, invites) ==
    LET found == {u \in {invites[k].uid : k \in 1..Len(invites)} :
                     InviteCandidates(store, u) # {}}
    IN {t \in [found -> 1..Len(store)] :
           \A u \in found : t[u] \in InviteCandidates(store, u)}

\* InviteStep accepting only a strictly higher sequence number
InviteStepStrict(st, message, event, table) ==
    IF event.uid \notin DOMAIN table
    THEN [st EXCEPT !.pending =
             Append(@, [event EXCEPT !.calendar = EmailedCalendar,
                                     !.message = message])]
    ELSE LET i == table[event.uid]
             existing_event == st.store[i]
         IN IF existing_event.sequence_number < event.sequence_number
            THEN LET merged_participants ==
                         PartialParticipantsMerge(existing_event, event)
                 IN [st EXCEPT !.store[i] =
                        [Update(existing_event, event) EXCEPT
                            !.message = message,
                            !.participants = merged_participants]]
            ELSE st

\* InviteStep merging the participants after Event.update has assigned the
\* incoming ones
InviteStepMergeLate(st, message, event, table) ==
    IF event.uid \notin DOMAIN table
    THEN [st EXCEPT !.pending =
             Append(@, [event EXCEPT !.calendar = EmailedCalendar,
                                     !.message = message])]
    ELSE LET i == table[event.uid]
             existing_event == st.store[i]
         IN IF existing_event.sequence_number <= event.sequence_number
            THEN LET updated == Update(existing_event, event)
                     merged_participants ==
                         PartialParticipantsMerge(updated, event)
                 IN [st EXCEPT !.store[i] =
                        [updated EXCEPT
                            !.message = message,
                            !.participants = merged_participants]]
            ELSE st

\* InviteStep keeping the participants Event.update assigned
InviteStepNoMerge(st, message, event, table) ==
    IF event.uid \notin DOMAIN table
    THEN [st EXCEPT !.pending =
             Append(@, [event EXCEPT !.calendar = EmailedCalendar,
                                     !.message = message])]
    ELSE LET i == table[event.uid]
             existing_event == st.store[i]
         IN IF existing_event.sequence_number <= event.sequence_number
            THEN [st EXCEPT !.store[i] =
                     [Update(existing_event, event) EXCEPT !.message = message]]
            ELSE st

\* One iteration of the loop of process_invites
InviteStep(st, message, event, table) ==
    IF event.uid \notin DOMAIN table
    THEN [st EXCEPT !.pending =
             Append(@, [event EXCEPT !.calendar = EmailedCalendar,
                                     !.message = message])]
    ELSE LET i == table[event.uid]
             existing_event == st.store[i]
         IN IF existing_event.sequence_number <= event.sequence_number
            THEN LET merged_participants ==
                         PartialParticipantsMerge(existing_event, event)
                 IN [st EXCEPT !.store[i] =
                        [Update(existing_event, event) EXCEPT
                            !.message = message,
                            !.participants = merged_participants]]
            ELSE st

RECURSIVE InviteLoop(_, _, _, _)
InviteLoop(st, message, invites, table) ==
    IF invites = <<>> THEN st
    ELSE InviteLoop(InviteStep(st, message, Head(invites), table),
                    message, Tail(invites), table)

\* process_invites followed by the flush of the session: the event tables
\* the call can leave
process_invites(store, message, invites) ==
    {LET st == InviteLoop([store |-> store, pending |-> <<>>],
                          message, invites, t)
     IN Flush(st.store, st.pending) : t \in InviteTables(store, invites)}

\* ----------------------------------------------------- process_nylas_rsvps
\* models.action_log.schedule_action: one more entry of the action log
schedule_action(log, func_name, record_id, calendar) ==
    Append(log, [action |-> func_name, record_id |-> record_id,
                 calendar |-> calendar])

\* new_uids: the cleaned uids of the RSVPs that carry @nylas.com, without
\* those that are no base36 ids
RsvpNewUids(rsvps) ==
    {u \in {CleanupNylasUid(rsvps[k].uid) :
               k \in {j \in 1..Len(rsvps) : Contains(rsvps[j].uid, NylasSuffix)}} :
        valid_base36(u)}

\* existing_events_table: public id -> row, over the rows outside the
\* emailed-events calendar whose public id is one of new_uids
RsvpTable(store, rsvps) ==
    LET rows == {i \in 1..Len(store) :
                    /\ store[i].calendar # EmailedCalendar
                    /\ store[i].public_id \in RsvpNewUids(rsvps)}
    IN [pid \in {store[i].public_id : i \in rows} |->
           CHOOSE i \in rows : store[i].public_id = pid]

\* RsvpStep accepting an RSVP issued against an older version as well
RsvpStepStale(st, message, event, table) ==
    LET event_uid == CleanupNylasUid(event.uid)
    IN IF event_uid \notin DOMAIN table
       THEN [st EXCEPT !.pending = Append(@, [event EXCEPT !.message = message])]
       ELSE LET i == table[event_uid]
                existing_event == st.store[i]
            IN IF existing_event.sequence_number >= event.sequence_number
               THEN LET merged_participants ==
                            PartialParticipantsMerge(existing_event, event)
                    IN [st EXCEPT
                           !.store[i].participants = merged_participants,
                           !.log = IF existing_event.calendar # EmailedCalendar
                                   THEN schedule_action(@, "update_event", i,
                                                        existing_event.calendar)
                                   ELSE @]
               ELSE st

\* RsvpStep scheduling the action before it compares the sequence numbers
RsvpStepEagerAction(st, message, event, table) ==
    LET event_uid == CleanupNylasUid(event.uid)
    IN IF event_uid \notin DOMAIN table
       THEN [st EXCEPT !.pending = Append(@, [event EXCEPT !.message = message])]
       ELSE LET i == table[event_uid]
                existing_event == st.store[i]
                log == IF existing_event.calendar # EmailedCalendar
                       THEN schedule_action(st.log, "update_event", i,
                                            existing_event.calendar)
                       ELSE st.log
            IN IF existing_event.sequence_number = event.sequence_number
               THEN LET merged_participants ==
                            PartialParticipantsMerge(existing_event, event)
                    IN [st EXCEPT
                           !.store[i].participants = merged_participants,
                           !.log = log]
               ELSE [st EXCEPT !.log = log]

\* RsvpStep overwriting the stored event with the RSVP, as process_invites
\* does with an invite
RsvpStepUpdate(st, message, event, table) ==
    LET event_uid == CleanupNylasUid(event.uid)
    IN IF event_uid \notin DOMAIN table
       THEN [st EXCEPT !.pending = Append(@, [event EXCEPT !.message = message])]
       ELSE LET i == table[event_uid]
                existing_event == st.store[i]
            IN IF existing_event.sequence_number = event.sequence_number
               THEN [st EXCEPT
                        !.store[i] = Update(existing_event, event),
                        !.log = IF existing_event.calendar # EmailedCalendar
                                THEN schedule_action(@, "update_event", i,
                                                     existing_event.calendar)
                                ELSE @]
               ELSE st

\* One iteration of the loop of process_nylas_rsvps
RsvpStep(st, message, event, table) ==
    LET event_uid == CleanupNylasUid(event.uid)
    IN IF event_uid \notin DOMAIN table
       THEN [st EXCEPT !.pending = Append(@, [event EXCEPT !.message = message])]
       ELSE LET i == table[event_uid]
                existing_event == st.store[i]
            IN IF existing_event.sequence_number = event.sequence_number
               THEN LET merged_participants ==
                            PartialParticipantsMerge(existing_event, event)
                    IN [st EXCEPT
                           !.store[i].participants = merged_participants,
                           !.log = IF existing_event.calendar # EmailedCalendar
                                   THEN schedule_action(@, "update_event", i,
                                                        existing_event.calendar)
                                   ELSE @]
               ELSE st

RECURSIVE RsvpLoop(_, _, _, _)
RsvpLoop(st, message, rsvps, table) ==
    IF rsvps = <<>> THEN st
    ELSE RsvpLoop(RsvpStep(st, message, Head(rsvps), table),
                  message, Tail(rsvps), table)

\* process_nylas_rsvps followed by the flush of the session: the event
\* table and the action log the call leaves
process_nylas_rsvps(store, log, message, rsvps) ==
    LET st == RsvpLoop([store |-> store, pending |-> <<>>, log |-> log],
                       message, rsvps, RsvpTable(store, rsvps))
    IN [store |-> Flush(st.store, st.pending), log |-> st.log]

\* ------------------------------------------------------------------ inputs
Messages == {"m1", "m2"}
Seqs == 0..MaxSeq

Invites ==
    {ParsedEvent(<<"u">>, s, b) : s \in Seqs, b \in Bodies}
        \cup {ParsedEvent(<<"v">>, 0, BodyA)}

RsvpUids ==
    { <<"a">> \o NylasSuffix,          \* the uid of an invite this account sent
      <<"A">> \o NylasSuffix,
      <<"a">> \o NylasSuffixUpper,
      <<"a">>,                         \* no suffix
      <<"_">> \o NylasSuffix,          \* not a base36 id
      <<"b">> \o NylasSuffix }         \* the public id of no stored event

Rsvps == {ParsedEvent(u, s, BodyR) : u \in RsvpUids, s \in Seqs}

RECURSIVE SeqsUpTo(_, _)
SeqsUpTo(S, n) ==
    IF n = 0 THEN {<<>>}
    ELSE LET shorter == SeqsUpTo(S, n - 1)
         IN shorter \cup {Append(q, x) : q \in shorter, x \in S}

InviteBatches == SeqsUpTo(Invites, MaxBatch) \ {<<>>}
RsvpBatches == SeqsUpTo(Rsvps, MaxBatch) \ {<<>>}

NoCall == [op |-> "none", message |-> None, batch |-> <<>>]

\* No document was handed to the parser, and the parser did not run
NoDocument == [from_ical |-> "none", method |-> None, components |-> <<>>]
NotParsed == [error |-> "not run", invites |-> <<>>, rsvps |-> <<>>]

\* Nothing was returned yet
NotReturned == [error |-> "not run", value |-> <<>>]

\* No mail was sent and no query ran
Quiet == outbox = <<>> /\ returned = NotReturned /\ threads = <<>>

\* The parser and the generator are not part of the reconciliation calls
IcsIdle == ics = NoDocument /\ parsed = NotParsed /\ raised = None /\ Quiet

\* The organizer's own copy of an event this account sent invites for, in a
\* calendar that is not the emailed-events calendar
OwnEvent ==
    [ParsedEvent(<<"u">>, 1,
                 [name |-> "own", content |-> ContentA,
                  participants |->
                      <<Participant("p@x", "None", "noreply", "Guests: 2")>>])
        EXCEPT !.calendar = OtherCalendar, !.public_id = <<"a">>,
               !.read_only = FALSE]

\* The store before the calls: the organizer's own event and, possibly, an
\* event an earlier message brought
InitialStores ==
    { <<OwnEvent>>,
      Flush(<<OwnEvent>>,
            <<[ParsedEvent(<<"u">>, 0, BodyA) EXCEPT !.message = "m1"]>>) }

Init ==
    /\ events \in InitialStores
    /\ IcsIdle
    /\ actions = <<>>
    /\ ncalls = 0
    /\ call = NoCall
    /\ pre = [events |-> <<>>, actions |-> <<>>]
    /\ once = <<>>
    /\ workers = <<>>
    /\ base = <<>>

ProcessInvites(message, invites) ==
    /\ ncalls < MaxCalls
    /\ once = <<>>
    /\ events' \in process_invites(events, message, invites)
    /\ ncalls' = ncalls + 1
    /\ call' = [op |-> "process_invites", message |-> message, batch |-> invites]
    /\ pre' = [events |-> events, actions |-> actions]
    /\ UNCHANGED <<actions, once, workers, base>>
    /\ UNCHANGED icsVars

ProcessNylasRsvps(message, rsvps) ==
    /\ ncalls < MaxCalls
    /\ once = <<>>
    /\ LET r == process_nylas_rsvps(events, actions, message, rsvps)
       IN events' = r.store /\ actions' = r.log
    /\ ncalls' = ncalls + 1
    /\ call' = [op |-> "process_nylas_rsvps", message |-> message, batch |-> rsvps]
    /\ pre' = [events |-> events, actions |-> actions]
    /\ UNCHANGED <<once, workers, base>>
    /\ UNCHANGED icsVars

\* The message of the last call is delivered once more: process_invites runs
\* again on the same invites
ProcessInvitesAgain ==
    /\ call.op = "process_invites"
    /\ once = <<>>
    /\ events' \in process_invites(events, call.message, call.batch)
    /\ once' = events
    /\ UNCHANGED <<actions, ncalls, call, pre, workers, base>>
    /\ UNCHANGED icsVars

Next ==
    \/ \E m \in Messages, b \in InviteBatches : ProcessInvites(m, b)
    \/ \E m \in Messages, b \in RsvpBatches : ProcessNylasRsvps(m, b)
    \/ ProcessInvitesAgain

Spec == Init /\ [][Next]_vars

\* ------------------------------------------- two deliveries at the same time
Deliveries == {1, 2}

Idle == [pc |-> "idle", message |-> None, invites |-> <<>>,
         table |-> <<>>, loaded |-> <<>>]

\* The deliveries that run at the same time bring one invite each, for the
\* same uid
ConcurrentBatches == {<<e>> : e \in {x \in Invites : x.uid = <<"u">>}}

InitConcurrent ==
    /\ events \in InitialStores
    /\ IcsIdle
    /\ actions = <<>>
    /\ ncalls = 0
    /\ call = NoCall
    /\ pre = [events |-> <<>>, actions |-> <<>>]
    /\ once = <<>>
    /\ workers = [w \in Deliveries |-> Idle]
    /\ base = events

\* process_invites up to existing_events_table: the session of the delivery
\* loads the rows that share a uid with its invites
Lookup(w, message, invites) ==
    /\ workers[w].pc = "idle"
    /\ \E t \in InviteTables(events, invites) :
          workers' = [workers EXCEPT ![w] =
              [pc |-> "loaded", message |-> message, invites |-> invites,
               table |-> t, loaded |-> events]]
    /\ UNCHANGED <<events, actions, ncalls, call, pre, once, base>>
    /\ UNCHANGED icsVars

\* The UPDATE the flush of a session issues for a loaded row: the columns
\* the session changed
UpdateRow(current, loaded, changed) ==
    [f \in DOMAIN current |->
        IF changed[f] # loaded[f] THEN changed[f] ELSE current[f]]

\* The loop of process_invites over the rows the session loaded, and the flush
\* of the session
Write(w) ==
    /\ workers[w].pc = "loaded"
    /\ LET me == workers[w]
           st == InviteLoop([store |-> me.loaded, pending |-> <<>>],
                            me.message, me.invites, me.table)
           updated == [i \in 1..Len(events) |->
                          IF i <= Len(me.loaded)
                          THEN UpdateRow(events[i], me.loaded[i], st.store[i])
                          ELSE events[i]]
       IN events' = Flush(updated, st.pending)
    /\ workers' = [workers EXCEPT ![w].pc = "done"]
    /\ UNCHANGED <<actions, ncalls, call, pre, once, base>>
    /\ UNCHANGED icsVars

NextConcurrent ==
    \/ \E w \in Deliveries, m \in Messages, b \in ConcurrentBatches : Lookup(w, m, b)
    \/ \E w \in Deliveries : Write(w)

SpecConcurrent == InitConcurrent /\ [][NextConcurrent]_vars

\* ========================================================= events_from_ics
\* A calendar document is what iCalendar.from_ical makes of the attachment:
\* the exception from_ical raised, or the METHOD of the VCALENDAR and the
\* components cal.walk() visits after it.  component.get(name) is the field
\* of the component; a property the component lacks is Absent.
Absent == [kind |-> "None"]
vText(value) == [kind |-> "text", value |-> value]

\* An integer property.  SEQUENCE has no upper limit: its value is
\* hi * Limb + lo
Limb == 65536
vInt(hi, lo) == [kind |-> "int", hi |-> hi, lo |-> lo]

\* .dt of a DATE property and of a DATE-TIME property: the tzinfo icalendar
\* gave the value and the TZID parameter of the property
Date(day) == [kind |-> "date", day |-> day]
DateTime(sec, tzinfo, tzid) ==
    [kind |-> "datetime", sec |-> sec, tzinfo |-> tzinfo, tzid |-> tzid]

\* A calendar address with its parameters
CalAddress(value, params) ==
    [kind |-> "cal-address", value |-> value, params |-> params]

\* timezones.timezones_table: Windows zone names to IANA zone names
timezones_table ==
    [w \in {"Pacific Standard Time"} |-> "America/Los_Angeles"]

\* The offset from UTC of a zone, in seconds
utcoffset(zone) == IF zone = "America/Los_Angeles" THEN 0 - 28800 ELSE 0

\* The last instant a datetime holds (datetime.max), on the time scale of
\* the documents
DatetimeMax == 1000000

SecondsPerDay == 86400

\* What a stage of the parser gives: the exception it raised, or a value
Raise(error) == [error |-> error, value |-> None]
Return(value) == [error |-> None, value |-> value]

\* pytz localize of a DATE-TIME value that has no tzinfo, after the
\* assertion that its TZID is a name of the table
Localize(dt) ==
    IF dt.tzinfo # None THEN Return(dt)
    ELSE IF dt.tzid \notin DOMAIN timezones_table THEN Raise("AssertionError")
    ELSE Return([dt EXCEPT !.tzinfo = timezones_table[dt.tzid]])

\* datetime.astimezone(pytz.UTC): the instant, or OverflowError when the UTC
\* value is past the range of datetime
AsTimezoneUTC(dt) ==
    LET utc == dt.sec - utcoffset(dt.tzinfo)
    IN IF utc > DatetimeMax \/ utc < 0 THEN Raise("OverflowError")
       ELSE Return(utc)

\* isinstance(value, date): datetime is a subclass of date
IsInstanceDate(value) == value.kind \in {"date", "datetime"}

\* arrow.get of a date (midnight UTC) and of a datetime (the same instant; a
\* datetime without tzinfo is read as UTC)
ArrowGet(value) ==
    IF value.kind = "date" THEN value.day * SecondsPerDay
    ELSE IF value.tzinfo = None THEN value.sec
    ELSE value.sec - utcoffset(value.tzinfo)

\* The type of start and of end when the assertion of line 96 looks at them
TypeAfterBranches(value, timed, dated) ==
    IF timed THEN "datetime" ELSE IF dated THEN "Arrow" ELSE value.kind

\* Lines 50-97: start, end and all_day of a VEVENT
StartEnd(component) ==
    LET dtstart == component.dtstart
        dtend == component.dtend
    IN IF dtstart.kind = "None" \/ dtend.kind = "None"
       THEN Raise("MalformedEventError")
       ELSE
       LET timed == dtstart.kind = "datetime" /\ dtend.kind = "datetime"
           dated == ~timed /\ IsInstanceDate(dtstart) /\ IsInstanceDate(dtend)
       IN IF timed
          THEN LET original_start == Localize(dtstart)
                   original_end == Localize(dtend)
               IN IF original_start.error # None THEN Raise(original_start.error)
                  ELSE IF original_end.error # None THEN Raise(original_end.error)
                  ELSE LET start == AsTimezoneUTC(original_start.value)
                           end == AsTimezoneUTC(original_end.value)
                       IN IF start.error # None THEN Raise(start.error)
                          ELSE IF end.error # None THEN Raise(end.error)
                          ELSE Return([start |-> start.value, end |-> end.value,
                                       all_day |-> FALSE])
          ELSE IF TypeAfterBranches(dtstart, timed, dated)
                      # TypeAfterBranches(dtend, timed, dated)
               THEN Raise("AssertionError")
               ELSE Return([start |-> ArrowGet(dtstart), end |-> ArrowGet(dtend),
                            all_day |-> dated])

\* Lines 99-119: the last modification date of a VEVENT
LastModified(component) ==
    LET last_modified_tstamp == component.dtstamp
    IN IF last_modified_tstamp.kind # "None"
       THEN IF last_modified_tstamp.tzinfo # None
            THEN Return(last_modified_tstamp.sec
                            - utcoffset(last_modified_tstamp.tzinfo))
            ELSE Raise("NotImplementedError")
       ELSE IF component.last_modified.kind = "None"
            THEN Raise("AttributeError")      \* None has no attribute dt
            ELSE Return(component.last_modified.sec)

\* event.EVENT_STATUSES
EVENT_STATUSES == {"confirmed", "tentative", "cancelled"}

\* Lines 133-150: the status of a VEVENT
EventStatusNoEventMethod(component, calendar_method) ==
    LET event_status ==
            IF component.status.kind # "None"
            THEN LowerText(component.status.value)
            ELSE IF calendar_method # None /\ calendar_method # ""
                    /\ LowerText(calendar_method) = "cancel"
                 THEN "cancelled"
                 ELSE "confirmed"
    IN IF event_status \in EVENT_STATUSES THEN Return(event_status)
       ELSE Raise("AssertionError")

EventStatus(component, calendar_method) ==
    LET event_status ==
            IF component.status.kind # "None"
            THEN LowerText(component.status.value)
            ELSE IF component.method.kind # "None"
                    /\ component.method.value # ""
                    /\ LowerText(component.method.value) = "cancel"
                 THEN "cancelled"
                 ELSE IF calendar_method # None /\ calendar_method # ""
                         /\ LowerText(calendar_method) = "cancel"
                      THEN "cancelled"
                      ELSE "confirmed"
    IN IF event_status \in EVENT_STATUSES THEN Return(event_status)
       ELSE Raise("AssertionError")

\* Lines 121-127: the title of a VEVENT, its SUMMARY values joined by " - "
RECURSIVE JoinSummaries(_)
JoinSummaries(summaries) ==
    IF Len(summaries) = 1 THEN summaries[1]
    ELSE summaries[1] \o " - " \o JoinSummaries(Tail(summaries))

Title(component) ==
    IF component.summary = <<>> THEN None ELSE JoinSummaries(component.summary)

\* An optional text property as the Event keeps it
TextOrNone(property) == IF property.kind = "None" THEN None ELSE property.value

\* The address of a calendar address: the value without its mailto: prefix
StripMailtoLowerOnly(email) ==
    IF Len(email) >= 7 /\ SubSeq(email, 1, 7) = "mailto:"
    THEN SubSeq(email, 8, Len(email))
    ELSE email

StripMailto(email) ==
    IF Len(email) >= 7 /\ LowerText(SubSeq(email, 1, 7)) = "mailto:"
    THEN SubSeq(email, 8, Len(email))
    ELSE email

\* util.addr.canonicalize_address: the periods of the local part of a Gmail
\* address do not count
canonicalize_address(addr) == IF addr = "m.e@gmail.com" THEN "me@gmail.com" ELSE addr

\* Lines 158-187: owner and is_owner of a VEVENT
Organizer(namespace, component) ==
    LET organizer == component.organizer
        organizer_email ==
            IF organizer.kind = "None" THEN None
            ELSE IF "EMAIL" \in DOMAIN organizer.params
                 THEN organizer.params["EMAIL"]
                 ELSE StripMailto(organizer.value)
        organizer_name ==
            IF organizer.kind # "None" /\ "CN" \in DOMAIN organizer.params
            THEN organizer.params["CN"]
            ELSE None
    IN [owner |-> organizer_name \o " <" \o organizer_email \o ">",
        is_owner |-> namespace.account.email_address
                        = canonicalize_address(organizer_email)]

\* ical.py status_map (and STATUS_MAP)
STATUS_MAP ==
    [s \in {"NEEDS-ACTION", "ACCEPTED", "DECLINED", "TENTATIVE"} |->
        CASE s = "NEEDS-ACTION" -> "noreply"
          [] s = "ACCEPTED" -> "yes"
          [] s = "DECLINED" -> "no"
          [] s = "TENTATIVE" -> "maybe"]

\* Lines 196-228: the participant an ATTENDEE becomes
Attendee(attendee) ==
    Participant(
        StripMailto(attendee.value),
        IF "CN" \in DOMAIN attendee.params THEN attendee.params["CN"] ELSE None,
        IF "PARTSTAT" \in DOMAIN attendee.params
           /\ attendee.params["PARTSTAT"] \in DOMAIN STATUS_MAP
        THEN STATUS_MAP[attendee.params["PARTSTAT"]]
        ELSE "noreply",
        IF "X-NUM-GUESTS" \in DOMAIN attendee.params
        THEN "Guests: " \o attendee.params["X-NUM-GUESTS"]
        ELSE None)

\* str(component.get('uid'))
Str(property) ==
    IF property.kind = "None" THEN <<"N", "o", "n", "e">> ELSE property.value

MaxInt32 == 2147483647

\* n > MaxInt32 for the integer of a property
GreaterThanMaxInt32(n) ==
    \/ n.hi > MaxInt32 \div Limb
    \/ n.hi = MaxInt32 \div Limb /\ n.lo > MaxInt32 % Limb

\* Lines 232-239: int(component.get('sequence')), truncated to fit the column
SequenceNumberWrapped(component) ==
    IF component.sequence.kind = "None" THEN Raise("TypeError")
    ELSE Return((component.sequence.hi % (MaxInt32 \div Limb + 1)) * Limb
                    + component.sequence.lo)

SequenceNumber(component) ==
    IF component.sequence.kind = "None" THEN Raise("TypeError")
    ELSE Return(IF GreaterThanMaxInt32(component.sequence) THEN MaxInt32
                ELSE component.sequence.hi * Limb + component.sequence.lo)

\* Lines 49-264: the Event built from one VEVENT, or the exception raised
\* on the way
VEvent(namespace, calendar, calendar_method, component) ==
    LET times == StartEnd(component)
        last_modified == LastModified(component)
        event_status == EventStatus(component, calendar_method)
        organizer == Organizer(namespace, component)
        sequence_number == SequenceNumber(component)
    IN IF times.error # None THEN Raise(times.error)
       ELSE IF last_modified.error # None THEN Raise(last_modified.error)
       ELSE IF event_status.error # None THEN Raise(event_status.error)
       ELSE IF sequence_number.error # None THEN Raise(sequence_number.error)
       ELSE Return(
           [calendar |-> calendar,
            uid |-> Str(component.uid),
            public_id |-> <<>>,
            raw_data |-> component,
            title |-> Title(component),
            description |-> TextOrNone(component.description),
            location |-> TextOrNone(component.location),
            reminders |-> "[]",
            recurrence |-> IF component.rrule.kind = "None" THEN None
                           ELSE "RRULE:" \o component.rrule.value,
            start |-> times.value.start,
            end |-> times.value.end,
            busy |-> TRUE,
            all_day |-> times.value.all_day,
            read_only |-> TRUE,
            owner |-> organizer.owner,
            is_owner |-> organizer.is_owner,
            last_modified |-> last_modified.value,
            status |-> event_status.value,
            sequence_number |-> sequence_number.value,
            participants |-> [j \in 1..Len(component.attendee) |->
                                 Attendee(component.attendee[j])],
            message |-> None])

\* Lines 266-271: the list of the result the Event of a VEVENT goes to
ClassifyAnyCase(lists, event, calendar_method) ==
    IF calendar_method # None
          /\ LowerText(calendar_method) \in {"request", "cancel"}
    THEN [lists EXCEPT !.invites = Append(@, event)]
    ELSE IF calendar_method # None /\ LowerText(calendar_method) = "reply"
    THEN [lists EXCEPT !.rsvps = Append(@, event)]
    ELSE lists

Classify(lists, event, calendar_method) ==
    IF calendar_method = "REQUEST" \/ calendar_method = "CANCEL"
    THEN [lists EXCEPT !.invites = Append(@, event)]
    ELSE IF calendar_method = "REPLY"
    THEN [lists EXCEPT !.rsvps = Append(@, event)]
    ELSE lists

\* What events_from_ics gives its caller: the two lists, or an exception and
\* no list
Raised(error) == [error |-> error, invites |-> <<>>, rsvps |-> <<>>]

\* Lines 40-271: the loop over cal.walk()
RECURSIVE Walk(_, _, _, _, _)
Walk(namespace, calendar, calendar_method, components, lists) ==
    IF components = <<>> THEN lists
    ELSE LET component == Head(components)
         IN IF component.name = "VTIMEZONE"
            THEN IF component.tzid \in DOMAIN timezones_table
                 THEN Walk(namespace, calendar, calendar_method,
                           Tail(components), lists)
                 ELSE Raised("AssertionError")
            ELSE LET event == VEvent(namespace, calendar, calendar_method,
                                     component)
                 IN IF event.error # None THEN Raised(event.error)
                    ELSE Walk(namespace, calendar, calendar_method,
                              Tail(components),
                              Classify(lists, event.value, calendar_method))

events_from_ics(namespace, calendar, ics_str) ==
    IF ics_str.from_ical \in {"ValueError", "IndexError", "KeyError"}
    THEN Raised("MalformedEventError")
    ELSE IF ics_str.from_ical # "ok" THEN Raised(ics_str.from_ical)
    ELSE Walk(namespace, calendar, ics_str.method, ics_str.components,
              [error |-> None, invites |-> <<>>, rsvps |-> <<>>])

\* ------------------------------------------------- the documents received
Account(provider) ==
    [email_address |-> "me@x", name |-> "Me", provider |-> provider]
Namespace(account) == [account |-> account]

NoParams == <<>>

\* A VEVENT as a well-behaved sender writes it
BaseVEvent ==
    [name |-> "VEVENT",
     dtstart |-> DateTime(36000, "UTC", None),
     dtend |-> DateTime(39600, "UTC", None),
     dtstamp |-> DateTime(100, "UTC", None),
     last_modified |-> Absent,
     summary |-> <<"Lunch">>,
     description |-> Absent,
     location |-> Absent,
     status |-> Absent,
     method |-> Absent,
     rrule |-> Absent,
     organizer |-> CalAddress("mailto:o@x", NoParams),
     attendee |-> <<CalAddress("mailto:p@x", [PARTSTAT |-> "ACCEPTED"])>>,
     uid |-> vText(<<"u">>),
     sequence |-> vInt(0, 0)]

Pacific == "Pacific Standard Time"

\* DTSTART and DTEND
TimePairs ==
    { <<DateTime(36000, "UTC", None), DateTime(39600, "UTC", None)>>,
      <<DateTime(36000, None, Pacific), DateTime(39600, None, Pacific)>>,
      <<DateTime(36000, "America/Los_Angeles", "America/Los_Angeles"),
        DateTime(39600, "UTC", None)>>,
      <<DateTime(36000, None, "Bogus"), DateTime(39600, None, Pacific)>>,
      <<DateTime(36000, None, Pacific), DateTime(39600, None, None)>>,
      <<DateTime(DatetimeMax - 3600, None, Pacific),
        DateTime(DatetimeMax - 1800, None, Pacific)>>,
      <<Date(1), Date(2)>>,
      <<DateTime(36000, "UTC", None), Date(2)>>,
      <<Date(1), DateTime(39600, None, None)>>,
      <<Absent, DateTime(39600, "UTC", None)>>,
      <<DateTime(36000, "UTC", None), Absent>>,
      <<Absent, Absent>> }

\* DTSTAMP and LAST-MODIFIED
Stamps ==
    { <<DateTime(100, "UTC", None), Absent>>,
      <<DateTime(100, "UTC", None), DateTime(200, "UTC", None)>>,
      <<DateTime(100, "America/Los_Angeles", None), Absent>>,
      <<Absent, DateTime(200, "UTC", None)>>,
      <<Absent, Absent>>,
      <<DateTime(100, None, None), Absent>>,
      <<DateTime(100, None, None), DateTime(200, "UTC", None)>> }

StatusValues ==
    {Absent} \cup {vText(s) : s \in {"CONFIRMED", "Cancelled", "TENTATIVE",
                                      "tentative", "NEEDS-ACTION", ""}}
MethodValues ==
    {Absent} \cup {vText(s) : s \in {"CANCEL", "cancel", "Cancel", "REQUEST", ""}}

UidValues ==
    {Absent, vText(<<>>), vText(<<"v">>), vText(<<"a">> \o NylasSuffix)}

SequenceValues ==
    {Absent, vInt(0, 1), vInt(MaxInt32 \div Limb, (MaxInt32 % Limb) - 1),
     vInt(MaxInt32 \div Limb, MaxInt32 % Limb), vInt(MaxInt32 \div Limb + 1, 0),
     vInt(Limb, 7)}

\* The other properties of a VEVENT
OtherVEvents ==
    { [BaseVEvent EXCEPT !.summary = <<>>],
      [BaseVEvent EXCEPT !.summary = <<"">>],
      [BaseVEvent EXCEPT !.summary = <<"Lunch", "Dinner">>],
      [BaseVEvent EXCEPT !.description = vText("bring wine"),
                         !.location = vText("home"),
                         !.rrule = vText("FREQ=DAILY")],
      [BaseVEvent EXCEPT !.organizer = Absent],
      [BaseVEvent EXCEPT !.organizer =
          CalAddress("MAILTO:x@imip.me.com", [CN |-> "Me", EMAIL |-> "me@x"])],
      [BaseVEvent EXCEPT !.organizer = CalAddress("m.e@gmail.com", [CN |-> "O"])],
      [BaseVEvent EXCEPT !.attendee = <<>>],
      [BaseVEvent EXCEPT !.attendee =
          <<CalAddress("MAILTO:p@x", [CN |-> "P", PARTSTAT |-> "NEEDS-ACTION"]),
            CalAddress("q@x", ("X-NUM-GUESTS" :> "2") @@ [PARTSTAT |-> "DELEGATED"]),
            CalAddress("mailto:", [PARTSTAT |-> "DECLINED"]),
            CalAddress("Mailto:r@x", [PARTSTAT |-> "TENTATIVE"])>>] }

VEvents ==
    {[BaseVEvent EXCEPT !.dtstart = t[1], !.dtend = t[2]] : t \in TimePairs}
        \cup {[BaseVEvent EXCEPT !.dtstamp = t[1], !.last_modified = t[2]] :
                  t \in Stamps}
        \cup {[BaseVEvent EXCEPT !.status = s, !.method = m] :
                  s \in StatusValues, m \in MethodValues}
        \cup {[BaseVEvent EXCEPT !.uid = u] : u \in UidValues}
        \cup {[BaseVEvent EXCEPT !.sequence = n] : n \in SequenceValues}
        \cup OtherVEvents

\* The VEVENTs of the documents that carry more than one
FewVEvents ==
    { BaseVEvent,
      [BaseVEvent EXCEPT !.uid = vText(<<"v">>), !.sequence = vInt(0, 1)],
      [BaseVEvent EXCEPT !.dtend = Absent],
      [BaseVEvent EXCEPT !.dtstamp = Absent],
      [BaseVEvent EXCEPT !.status = vText("NEEDS-ACTION")],
      [BaseVEvent EXCEPT !.sequence = Absent] }

VTimezones == {[name |-> "VTIMEZONE", tzid |-> z] : z \in {Pacific, "Bogus"}}

MaxVEvents == 2

ComponentLists ==
    {<<v>> : v \in VEvents}
        \cup (SeqsUpTo(FewVEvents, MaxVEvents) \ {<<>>})
        \cup {<<z, BaseVEvent>> : z \in VTimezones}
        \cup {<<>>}

CalendarMethods ==
    {None, "REQUEST", "CANCEL", "REPLY", "PUBLISH", "Cancel", "reply", ""}

\* What from_ical makes of an attachment
Documents ==
    {[from_ical |-> "ok", method |-> m, components |-> c] :
        m \in CalendarMethods, c \in ComponentLists}
      \cup {[from_ical |-> e, method |-> None, components |-> <<>>] :
                e \in {"ValueError", "IndexError", "KeyError"}}

\* =================================================== import_attached_events
\* The data of an attached event file that is empty
EmptyData == [from_ical |-> "empty", method |-> None, components |-> <<>>]

\* message.from_addr: None, or a list of (name, address) tuples
FromAddr(value) == [kind |-> "list", value |-> value]

\* The exception classes the second handler of the loop names
CaughtClasses ==
    {"AssertionError", "TypeError", "RuntimeError", "AttributeError",
     "ValueError", "UnboundLocalError", "LookupError", "ImportError",
     "NameError"}

\* The class an exception class derives from
BaseClass(error) ==
    CASE error = "NotImplementedError" -> "RuntimeError"
      [] error \in {"KeyError", "IndexError"} -> "LookupError"
      [] error = "UnboundLocalError" -> "NameError"
      [] error = "OverflowError" -> "ArithmeticError"
      [] OTHER -> "Exception"

\* Whether one of the two handlers of the loop takes the exception
Handled(error) ==
    \/ error = "MalformedEventError"
    \/ error \in CaughtClasses
    \/ BaseClass(error) \in CaughtClasses

\* Lines 395-404: the message is one this account sent, or has no sender
ReturnsEarly(account, message) ==
    /\ message.from_addr.kind # "None"
    /\ \/ Len(message.from_addr.value) = 0
       \/ Len(message.from_addr.value[1]) = 1
       \/ message.from_addr.value[1][2] = account.email_address
       \/ message.from_addr.value[1][2] = ""

\* ImportLoop reconciling the RSVPs whatever the provider of the account is
RECURSIVE ImportLoopAnyProvider(_, _, _, _)
ImportLoopAnyProvider(st, account, message, parts) ==
    IF parts = <<>> THEN {st}
    ELSE LET part_data == Head(parts)
             new_events == events_from_ics(Namespace(account), EmailedCalendar,
                                           part_data)
         IN IF part_data = EmptyData
            THEN ImportLoopAnyProvider(st, account, message, Tail(parts))
            ELSE IF new_events.error # None
            THEN IF Handled(new_events.error)
                 THEN ImportLoopAnyProvider(st, account, message, Tail(parts))
                 ELSE {[st EXCEPT !.raised = new_events.error]}
            ELSE UNION {
                LET r == process_nylas_rsvps(store, st.log, message.id,
                                             new_events.rsvps)
                IN ImportLoopAnyProvider([store |-> r.store, log |-> r.log,
                                          raised |-> None],
                                         account, message, Tail(parts)) :
                store \in process_invites(st.store, message.id,
                                          new_events.invites) }

\* Lines 406-447: the loop over the attached event files.  Every outcome is
\* the event table, the action log and the exception that escaped
RECURSIVE ImportLoop(_, _, _, _)
ImportLoop(st, account, message, parts) ==
    IF parts = <<>> THEN {st}
    ELSE LET part_data == Head(parts)
             new_events == events_from_ics(Namespace(account), EmailedCalendar,
                                           part_data)
         IN IF part_data = EmptyData
            THEN ImportLoop(st, account, message, Tail(parts))
            ELSE IF new_events.error # None
            THEN IF Handled(new_events.error)
                 THEN ImportLoop(st, account, message, Tail(parts))
                 ELSE {[st EXCEPT !.raised = new_events.error]}
            ELSE UNION {
                LET r == IF account.provider # "gmail"
                         THEN process_nylas_rsvps(store, st.log, message.id,
                                                  new_events.rsvps)
                         ELSE [store |-> store, log |-> st.log]
                IN ImportLoop([store |-> r.store, log |-> r.log,
                               raised |-> None],
                              account, message, Tail(parts)) :
                store \in process_invites(st.store, message.id,
                                          new_events.invites) }

import_attached_events(store, log, account, message) ==
    IF ReturnsEarly(account, message)
    THEN {[store |-> store, log |-> log, raised |-> None]}
    ELSE ImportLoop([store |-> store, log |-> log, raised |-> None],
                    account, message, message.attached_event_files)

\* ---------------------------------------------- the messages that arrive
Accounts == {Account(p) : p \in {"gmail", "eas"}}

FromAddrs ==
    { Absent,
      FromAddr(<<>>),
      FromAddr(<< <<"Me">> >>),
      FromAddr(<< <<"Me", "">> >>),
      FromAddr(<< <<"Me", "me@x">> >>),
      FromAddr(<< <<"O", "o@x">> >>) }

Calendar(method, components) ==
    [from_ical |-> "ok", method |-> method, components |-> components]

\* The attached event files: invites, a reply to an invite this account
\* sent, and documents the parser fails on in each of its ways
AttachedEventFiles ==
    { EmptyData,
      Calendar("REQUEST", <<BaseVEvent>>),
      Calendar("REQUEST", <<[BaseVEvent EXCEPT !.uid = vText(<<"v">>),
                                               !.sequence = vInt(0, 1)]>>),
      Calendar("REPLY", <<[BaseVEvent EXCEPT
                              !.uid = vText(<<"a">> \o NylasSuffix),
                              !.sequence = vInt(0, 1)]>>),
      [from_ical |-> "ValueError", method |-> None, components |-> <<>>],
      Calendar("REQUEST", <<[BaseVEvent EXCEPT !.uid = vText(<<"v">>)],
                            [BaseVEvent EXCEPT !.dtend = Absent]>>),
      Calendar("REQUEST", <<[name |-> "VTIMEZONE", tzid |-> "Bogus"],
                            BaseVEvent>>),
      Calendar("REQUEST",
               <<[BaseVEvent EXCEPT !.dtstamp = DateTime(100, None, None)]>>),
      Calendar("REQUEST", <<[BaseVEvent EXCEPT !.dtstamp = Absent]>>),
      Calendar("REQUEST", <<[BaseVEvent EXCEPT !.sequence = Absent]>>),
      Calendar("REQUEST",
               <<[BaseVEvent EXCEPT
                     !.dtstart = DateTime(DatetimeMax - 3600, None, Pacific),
                     !.dtend = DateTime(DatetimeMax - 1800, None, Pacific)]>>) }

MaxAttachments == 2

IncomingMessages ==
    {[id |-> "m2", from_addr |-> f, attached_event_files |-> parts] :
        f \in FromAddrs, parts \in SeqsUpTo(AttachedEventFiles, MaxAttachments)}

InitImport ==
    /\ events \in InitialStores
    /\ actions = <<>>
    /\ ncalls = 0
    /\ call = NoCall
    /\ pre = [events |-> <<>>, actions |-> <<>>]
    /\ once = <<>>
    /\ workers = <<>>
    /\ base = <<>>
    /\ IcsIdle

ImportAttachedEvents(account, message) ==
    /\ call = NoCall
    /\ \E r \in import_attached_events(events, actions, account, message) :
          /\ events' = r.store
          /\ actions' = r.log
          /\ raised' = r.raised
    /\ call' = [op |-> "import_attached_events", account |-> account,
                message |-> message, batch |-> <<>>]
    /\ pre' = [events |-> events, actions |-> actions]
    /\ UNCHANGED <<ncalls, once, workers, base, ics, parsed, outbox, returned, threads>>

NextImport ==
    \E account \in Accounts, message \in IncomingMessages :
        ImportAttachedEvents(account, message)

SpecImport == InitImport /\ [][NextImport]_vars

\* ============================================================ the generator
\* util.serialize_datetime: the datetime as the text of a UTC DATE-TIME,
\* to the second
serialize_datetime(d) == [strftime |-> "%Y%m%dT%H%M%SZ", sec |-> d]

\* What from_ical reads from the text of a DATE-TIME and of an integer that
\* the generator put in a component
FromIcalDateTime(text) ==
    DateTime(text.sec, IF text.strftime = "%Y%m%dT%H%M%SZ" THEN "UTC" ELSE None,
             None)
FromIcalInt(n) == vInt(n \div Limb, n % Limb)

\* `value or ''`
OrEmpty(value) == IF value = None THEN "" ELSE value

\* ical.py INVERTED_STATUS_MAP.get(status)
INVERTED_STATUS_MAP(status) ==
    CASE status = "noreply" -> "NEEDS-ACTION"
      [] status = "yes" -> "ACCEPTED"
      [] status = "no" -> "DECLINED"
      [] status = "maybe" -> "TENTATIVE"
      [] OTHER -> None

\* Lines 497-514: the ATTENDEE of a participant
InviteAttendee(participant) ==
    CalAddress("MAILTO:" \o participant.email,
               (IF participant.name # None THEN [CN |-> participant.name]
                ELSE NoParams)
                 @@ [RSVP |-> "TRUE", ROLE |-> "REQ-PARTICIPANT",
                     CUTYPE |-> "INDIVIDUAL",
                     PARTSTAT |-> INVERTED_STATUS_MAP(participant.status)])

\* generate_icalendar_invite: the calendar as its text is read back, or the
\* exception raised
generate_icalendar_invite(event, invite_type) ==
    LET account == event.namespace.account
        last_modified == FromIcalDateTime(serialize_datetime(event.updated_at))
    IN IF invite_type \notin {"request", "cancel"} THEN Raise("AssertionError")
       ELSE IF \E j \in 1..Len(event.participants) :
                  event.participants[j].email \in {None, ""}
       THEN Raise("AssertionError")
       ELSE Return(
           Calendar(
               IF invite_type \in {"request", "update"} THEN "REQUEST" ELSE "CANCEL",
               <<[name |-> "VEVENT",
                  organizer |->
                      CalAddress("MAILTO:" \o account.email_address,
                                 IF account.name # None
                                 THEN [CN |-> account.name] ELSE NoParams),
                  sequence |-> FromIcalInt(event.sequence_number),
                  status |-> vText(IF invite_type = "cancel" THEN "CANCELLED"
                                   ELSE "CONFIRMED"),
                  uid |-> vText(event.public_id \o NylasSuffix),
                  description |-> vText(OrEmpty(event.description)),
                  summary |-> <<OrEmpty(event.title)>>,
                  last_modified |-> last_modified,
                  dtstamp |-> last_modified,
                  created |->
                      FromIcalDateTime(serialize_datetime(event.created_at)),
                  dtstart |-> FromIcalDateTime(serialize_datetime(event.start)),
                  dtend |-> FromIcalDateTime(serialize_datetime(event.end)),
                  transp |-> vText(IF event.busy THEN "OPAQUE" ELSE "TRANSPARENT"),
                  location |-> vText(OrEmpty(event.location)),
                  method |-> Absent,
                  rrule |-> Absent,
                  attendee |-> [j \in 1..Len(event.participants) |->
                                   InviteAttendee(event.participants[j])]]>>))

\* The time _generate_rsvp reads from the clock
UtcNow == 500

\* Lines 614-617: the address between the angle brackets of event.owner
OrganizerEmail(owner) ==
    LET at == CHOOSE i \in 1..Len(owner) : SubSeq(owner, i, i) = "<"
    IN SubSeq(owner, at + 1, Len(owner) - 1)

\* _generate_rsvp: the calendar as its text is read back, and the address
\* of the organizer
GenerateRsvpCalendar(status, account, event) ==
    [cal |->
        Calendar("REPLY",
            <<[name |-> "VEVENT",
               uid |-> vText(event.uid),
               sequence |-> FromIcalInt(event.sequence_number),
               status |-> IF event.status = "confirmed" THEN vText("CONFIRMED")
                          ELSE Absent,
               dtstamp |-> FromIcalDateTime(serialize_datetime(UtcNow)),
               last_modified |-> Absent,
               dtstart |-> FromIcalDateTime(serialize_datetime(event.start)),
               dtend |-> FromIcalDateTime(serialize_datetime(event.end)),
               description |-> IF event.description # None
                               THEN vText(event.description) ELSE Absent,
               location |-> IF event.location # None
                            THEN vText(event.location) ELSE Absent,
               summary |-> IF event.title # None THEN <<event.title>> ELSE <<>>,
               organizer |-> Absent,
               method |-> Absent,
               rrule |-> Absent,
               attendee |->
                   <<CalAddress("MAILTO:" \o account.email_address,
                                [CN |-> account.name, PARTSTAT |-> status])>>]>>),
     organizer_email |-> OrganizerEmail(event.owner)]

\* generate_rsvp
generate_rsvp(event, participant, account) ==
    GenerateRsvpCalendar(INVERTED_STATUS_MAP(participant.status), account, event)

\* ------------------------------------------------- the events invited for
\* An event of this account: the columns the generator reads
StoredEvent(title, participants, sequence_number, busy) ==
    [namespace |-> Namespace(Account("eas")), updated_at |-> 300,
     created_at |-> 200]
        @@ [OwnEvent EXCEPT !.title = title, !.participants = participants,
                            !.sequence_number = sequence_number, !.busy = busy,
                            !.start = 36000, !.end = 39600]

ParticipantLists ==
    { <<>>,
      ParticipantsP,
      ParticipantsPQ,
      <<Participant("mailto:p@x", "P", "maybe", None)>>,
      <<Participant("p@x", None, "yes", None), Participant("", "Q", "no", None)>>,
      <<Participant(None, "Q", "noreply", None)>> }

StoredEvents ==
    {StoredEvent(t, p, n, b) :
        t \in {None, "", "Lunch"}, p \in ParticipantLists, n \in Seqs,
        b \in BOOLEAN}

InviteTypes == {"request", "update", "cancel"}

GenerateIcalendarInvite(event, invite_type) ==
    /\ ics = NoDocument
    /\ call = NoCall
    /\ LET cal == generate_icalendar_invite(event, invite_type)
       IN IF cal.error # None
          THEN raised' = cal.error /\ ics' = ics
          ELSE raised' = None /\ ics' = cal.value
    /\ call' = [op |-> "generate_icalendar_invite", event |-> event,
                invite_type |-> invite_type, message |-> None, batch |-> <<>>]
    /\ UNCHANGED <<events, actions, ncalls, pre, once, workers, base, parsed,
                   outbox, returned, threads>>

GenerateRsvp(event, participant, account) ==
    /\ ics = NoDocument
    /\ call = NoCall
    /\ LET rsvp == generate_rsvp(event, participant, account)
       IN /\ ics' = rsvp.cal
          /\ call' = [op |-> "generate_rsvp", event |-> event,
                      participant |-> participant, account |-> account,
                      organizer_email |-> rsvp.organizer_email,
                      message |-> None, batch |-> <<>>]
    /\ UNCHANGED <<events, actions, ncalls, pre, once, workers, base, parsed,
                   raised, outbox, returned, threads>>

\* -------------------------- the parser and the generator on one document
InitIcs ==
    /\ events = <<>>
    /\ actions = <<>>
    /\ ncalls = 0
    /\ call = NoCall
    /\ pre = [events |-> <<>>, actions |-> <<>>]
    /\ once = <<>>
    /\ workers = <<>>
    /\ base = <<>>
    /\ ics \in Documents \cup {NoDocument}
    /\ parsed = NotParsed
    /\ raised = None
    /\ Quiet

EventsFromIcs ==
    /\ ics # NoDocument
    /\ parsed = NotParsed
    /\ parsed' = events_from_ics(Namespace(Account("eas")), EmailedCalendar, ics)
    /\ UNCHANGED <<events, actions, ncalls, call, pre, once, workers, base,
                   ics, raised, outbox, returned, threads>>

NextIcs ==
    \/ EventsFromIcs
    \/ \E event \in StoredEvents, invite_type \in InviteTypes :
          GenerateIcalendarInvite(event, invite_type)
    \/ \E event \in StoredEvents, participant \in {ParticipantsReply[2]},
          account \in Accounts :
          GenerateRsvp(event, participant, account)

SpecIcs == InitIcs /\ [][NextIcs]_vars

\* ================================================================ send_rsvp
\* The address iCloud sends invites from
ICloudNoReply == "noreply@insideicloud.icloud.com"

\* Lines 693-699: the subject of the reply
RsvpSubject(status, subject) ==
    CASE status = "yes" -> "Accepted: " \o subject
      [] status = "maybe" -> "Tentatively accepted: " \o subject
      [] status = "no" -> "Declined: " \o subject

\* send_rsvp: the exception it raises, or the mail it hands to the sendmail
\* client, with the list of recipients it names
send_rsvp(ical_data, event, body_text, status, account) ==
    LET rsvp_to == ical_data.organizer_email
        from_addrs == event.message.from_addr
    IN IF from_addrs.kind = "None" THEN Raise("AssertionError")
       ELSE IF Len(from_addrs.value) # 1 THEN Raise("AssertionError")
       ELSE IF Len(from_addrs.value[1]) < 2 THEN Raise("IndexError")
       ELSE LET from_addr == from_addrs.value[1][2]
                to == IF from_addr # ICloudNoReply THEN from_addr ELSE rsvp_to
            IN IF status \notin {"yes", "no", "maybe"}
               THEN Raise("AssertionError")
               ELSE Return([recipients |-> <<rsvp_to>>,
                            headers |->
                                [ReplyTo |-> account.email_address,
                                 From |-> account.email_address,
                                 To |-> to,
                                 Subject |-> RsvpSubject(status,
                                                 event.message.subject)],
                            calendar |-> ical_data.cal])

\* The senders of the message an invite came with
InviteSenders ==
    { Absent,
      FromAddr(<<>>),
      FromAddr(<< <<"O">> >>),
      FromAddr(<< <<"O", "o@x">> >>),
      FromAddr(<< <<"S", "s@x">> >>),
      FromAddr(<< <<"", ICloudNoReply>> >>),
      FromAddr(<< <<"O", "o@x">>, <<"S", "s@x">> >>) }

\* Events of the emailed-events calendar, each with the message that
\* brought it
InvitedEvents ==
    {[StoredEvent(t, ParticipantsP, n, TRUE) EXCEPT
         !.calendar = EmailedCalendar,
         !.message = [from_addr |-> f, subject |-> "Lunch"]] :
        t \in {None, "Lunch"}, n \in Seqs, f \in InviteSenders}

RsvpStatuses == {"yes", "no", "maybe", "noreply"}

InitSend ==
    /\ events = <<>>
    /\ actions = <<>>
    /\ ncalls = 0
    /\ call = NoCall
    /\ pre = [events |-> <<>>, actions |-> <<>>]
    /\ once = <<>>
    /\ workers = <<>>
    /\ base = <<>>
    /\ IcsIdle

\* The account answers an invite: generate_rsvp, then send_rsvp with what
\* it returned
SendRsvp(event, status, account) ==
    /\ call = NoCall
    /\ LET participant == Participant(account.email_address, account.name,
                                      status, None)
           ical_data == generate_rsvp(event, participant, account)
           sent == send_rsvp(ical_data, event, "", status, account)
       IN /\ raised' = sent.error
          /\ outbox' = IF sent.error = None THEN Append(outbox, sent.value)
                       ELSE outbox
          /\ call' = [op |-> "send_rsvp", event |-> event, status |-> status,
                      account |-> account,
                      organizer_email |-> ical_data.organizer_email,
                      message |-> None, batch |-> <<>>]
    /\ UNCHANGED <<events, actions, ncalls, pre, once, workers, base, ics,
                   parsed, returned, threads>>

NextSend ==
    \E event \in InvitedEvents, status \in RsvpStatuses, account \in Accounts :
        SendRsvp(event, status, account)

SpecSend == InitSend /\ [][NextSend]_vars

\* ================================================= recurring events (event.py)
\* datetime.date() of a naive datetime: the midnight its day begins with
DateOf(t) == t - (t % SecondsPerDay)

\* Event.when: Date or DateSpan of the days for an all-day event, Time or
\* TimeSpan of the instants otherwise
when(self) ==
    IF self.all_day
    THEN [start |-> DateOf(self.start), end |-> DateOf(self.end)]
    ELSE [start |-> self.start, end |-> self.end]

\* When.delta
delta(w) == w.end - w.start

\* Event.length
length(self) == delta(when(self))

\* strftime("%Y%m%dT%H%M%SZ") of a datetime: the day and the time of day of
\* its wall clock, without its tzinfo
Strftime(dt) == <<dt.sec \div SecondsPerDay, dt.sec % SecondsPerDay>>

\* "{}_{}".format(uid, ts_id)
FormatUid(uid, ts_id) == <<uid, "_">> \o ts_id

\* InflatedEvent.set_start_end
set_start_end(self, start) ==
    LET len == length(self)
    IN IF start.tzinfo # None /\ utcoffset(start.tzinfo) # 0
       THEN Raise("Exception")
       ELSE Return([self EXCEPT !.start = start.sec, !.end = start.sec + len])

\* Event.copy_from: the columns of the master on a new event
copy_from(self, master) == [master EXCEPT !.kind = self.kind]

\* InflatedEvent.__init__
InflatedEvent(event, instance_start) ==
    LET copied == copy_from([kind |-> "InflatedEvent"], event)
        ts_id == Strftime(instance_start)
    IN set_start_end([copied EXCEPT
                         !.master = event.uid,
                         !.uid = FormatUid(event.uid, ts_id),
                         !.public_id = FormatUid(event.public_id, ts_id)],
                     instance_start)

\* How many occurrences the rule of a master has
MaxOccurrences == 3

\* A window bound that was given
Given(bound) == bound.kind # "None"

\* recurring.get_start_times: the starts the daily rule of the event gives
\* within the window, ascending, as datetimes of the zone tz
RECURSIVE StartTimes(_, _, _, _, _)
StartTimes(event, start, end, tz, k) ==
    IF k = MaxOccurrences THEN <<>>
    ELSE LET t == event.start + k * SecondsPerDay
         IN (IF /\ Given(start) => t >= start.sec
                /\ Given(end) => t <= end.sec
             THEN <<DateTime(t + utcoffset(tz), tz, None)>>
             ELSE <<>>) \o StartTimes(event, start, end, tz, k + 1)

get_start_times(event, start, end, tz) == StartTimes(event, start, end, tz, 0)

\* RecurringEvent.inflate: the InflatedEvents of the occurrences, or the
\* exception the first failing one raises
RECURSIVE InflateEach(_, _)
InflateEach(self, occurrences) ==
    IF occurrences = <<>> THEN Return(<<>>)
    ELSE LET e == InflatedEvent(self, Head(occurrences))
             rest == InflateEach(self, Tail(occurrences))
         IN IF e.error # None THEN Raise(e.error)
            ELSE IF rest.error # None THEN Raise(rest.error)
            ELSE Return(<<e.value>> \o rest.value)

inflate(self, start, end, tz) ==
    InflateEach(self, get_start_times(self, start, end, tz))

\* sorted(events, key=lambda e: e.start): a stable sort
RECURSIVE Insert(_, _)
Insert(sorted, e) ==
    IF sorted = <<>> THEN <<e>>
    ELSE IF sorted[Len(sorted)].start <= e.start THEN Append(sorted, e)
    ELSE Append(Insert(SubSeq(sorted, 1, Len(sorted) - 1), e),
                sorted[Len(sorted)])

\* Sorted leaving the list in the order it was built in
Unsorted(list) == list

RECURSIVE Sorted(_)
Sorted(list) ==
    IF list = <<>> THEN <<>>
    ELSE Insert(Sorted(SubSeq(list, 1, Len(list) - 1)), list[Len(list)])

\* The overrides of the master the filtered query returns, in its order
FetchedOverrides(overrides, start, end) ==
    SelectSeq(overrides,
              LAMBDA o : /\ Given(start) => o.start > start.sec
                         /\ Given(end) => o.end < end.sec)

\* all_events keeping every inflated event, whether or not an override has
\* its uid
AllEventsKeepAll(self, overrides, start, end, tz) ==
    LET fetched == FetchedOverrides(overrides, start, end)
        inflated == inflate(self, start, end, tz)
    IN IF inflated.error # None THEN Raise(inflated.error)
       ELSE Return(Sorted(fetched \o inflated.value))

\* RecurringEvent.all_events
all_events(self, overrides, start, end, tz) ==
    LET fetched == FetchedOverrides(overrides, start, end)
        uids == {fetched[i].uid : i \in 1..Len(fetched)}
        inflated == inflate(self, start, end, tz)
    IN IF inflated.error # None THEN Raise(inflated.error)
       ELSE Return(Sorted(fetched \o
                SelectSeq(inflated.value, LAMBDA e : e.uid \notin uids)))

\* ------------------------------------------------ the series that are expanded
\* A recurring event with a daily rule; its occurrences start at the time of
\* day of its start
Master(start, end, all_day) ==
    [kind |-> "RecurringEvent", uid |-> "m", public_id |-> "a",
     title |-> "Standup", start |-> start, end |-> end, all_day |-> all_day,
     master |-> None, original_start_time |-> 0]

\* A timed series, an all-day series, and an all-day series as
\* events_from_ics stores it for a DTSTART with a time of day and a DTEND
\* without one
Masters ==
    { Master(36000, 39600, FALSE),
      Master(0, SecondsPerDay, TRUE),
      Master(36000, SecondsPerDay, TRUE) }

\* The persisted override of the k-th occurrence of a master, moved by shift
Override(self, k, shift) ==
    LET original == self.start + k * SecondsPerDay
    IN [self EXCEPT
           !.kind = "RecurringEventOverride",
           !.uid = FormatUid(self.uid, Strftime(DateTime(original, None, None))),
           !.public_id = <<"o", "_", k, shift>>,
           !.title = "Moved",
           !.start = original + shift,
           !.end = original + shift + (self.end - self.start),
           !.master = self.uid,
           !.original_start_time = original]

Shifts == {0, 14400, 2 * SecondsPerDay}

MaxOverrides == 2

\* The overrides of a master as the query returns them: at most one for an
\* occurrence, in any order
OverrideLists(self) ==
    {list \in SeqsUpTo({Override(self, k, shift) :
                           k \in 0..(MaxOccurrences - 1), shift \in Shifts},
                       MaxOverrides) :
        \A i, j \in 1..Len(list) : list[i].uid = list[j].uid => i = j}

\* The bounds of the window: None, or a naive datetime
Bound(sec) == [kind |-> "datetime", sec |-> sec]
WindowStarts == {Absent, Bound(0), Bound(36000 + SecondsPerDay)}
WindowEnds == {Absent, Bound(36000 + 2 * SecondsPerDay), Bound(4 * SecondsPerDay)}

\* The tzinfo of the datetimes get_start_times returns: none, UTC, or a zone
\* with an offset
Zones == {None, "UTC", "America/Los_Angeles"}

InitRecurring ==
    /\ events = <<>>
    /\ actions = <<>>
    /\ ncalls = 0
    /\ call = NoCall
    /\ pre = [events |-> <<>>, actions |-> <<>>]
    /\ once = <<>>
    /\ workers = <<>>
    /\ base = <<>>
    /\ IcsIdle

AllEvents(self, overrides, start, end, tz) ==
    /\ call = NoCall
    /\ returned' = all_events(self, overrides, start, end, tz)
    /\ call' = [op |-> "all_events", self |-> self, overrides |-> overrides,
                start |-> start, end |-> end, tz |-> tz,
                message |-> None, batch |-> <<>>]
    /\ UNCHANGED <<events, actions, ncalls, pre, once, workers, base, ics,
                   parsed, raised, outbox, threads>>

NewInflatedEvent(event, instance_start) ==
    /\ call = NoCall
    /\ returned' = InflatedEvent(event, instance_start)
    /\ call' = [op |-> "InflatedEvent", event |-> event,
                instance_start |-> instance_start,
                message |-> None, batch |-> <<>>]
    /\ UNCHANGED <<events, actions, ncalls, pre, once, workers, base, ics,
                   parsed, raised, outbox, threads>>

NextRecurring ==
    \/ /\ call = NoCall
       /\ \E self \in Masters, start \in WindowStarts, end \in WindowEnds,
             tz \in Zones :
             \E overrides \in OverrideLists(self) :
                 AllEvents(self, overrides, start, end, tz)
    \/ /\ call = NoCall
       /\ \E event \in Masters, k \in 0..(MaxOccurrences - 1), tz \in Zones :
             NewInflatedEvent(event,
                 DateTime(event.start + k * SecondsPerDay + utcoffset(tz), tz,
                          None))

SpecRecurring == InitRecurring /\ [][NextRecurring]_vars

\* ============================================ ImapThread.from_gmail_message
\* A g_thrid that is set
GThrid(value) == [kind |-> "int", value |-> value]

\* An ImapThread row: the message_id_header of its messages stands for them
ImapThread(g_thrid, namespace_id, recentdate, messages) ==
    [g_thrid |-> g_thrid, namespace_id |-> namespace_id,
     recentdate |-> recentdate, messages |-> messages]

\* The orders in which the query of _choose_existing_thread_for_gmail can
\* return the rows with the g_thrid and the namespace of the message: most
\* recent first, rows of one recentdate in any order
PriorThreads(message, rows) ==
    LET found == {i \in 1..Len(rows) :
                     /\ rows[i].g_thrid = message.g_thrid
                     /\ rows[i].namespace_id = message.namespace_id}
    IN {order \in [1..Cardinality(found) -> found] :
           /\ \A a, b \in 1..Cardinality(found) : order[a] = order[b] => a = b
           /\ \A a \in 1..(Cardinality(found) - 1) :
                 rows[order[a]].recentdate >= rows[order[a + 1]].recentdate}

\* _choose_existing_thread_for_gmail for one order of the rows: the row it
\* returns, 0 for None
ChooseAmong(message, rows, prior_threads) ==
    IF Len(prior_threads) = 0 THEN 0
    ELSE IF Len(prior_threads) = 1 THEN prior_threads[1]
    ELSE IF message.in_reply_to \in {None, ""} THEN prior_threads[1]
    ELSE LET matching == {a \in 1..Len(prior_threads) :
                             message.in_reply_to \in rows[prior_threads[a]].messages}
         IN IF matching # {}
            THEN prior_threads[CHOOSE a \in matching : \A b \in matching : a <= b]
            ELSE prior_threads[1]

_choose_existing_thread_for_gmail(message, rows) ==
    {ChooseAmong(message, rows, prior_threads) :
        prior_threads \in PriorThreads(message, rows)}

\* ImapThread.from_gmail_message: the exception it raises or the row it
\* returns, and the rows of the session after it
from_gmail_message(rows, namespace, message) ==
    IF message.thread # 0
    THEN {[error |-> None, value |-> message.thread,
           rows |-> [rows EXCEPT ![message.thread].g_thrid = message.g_thrid]]}
    ELSE IF message.g_thrid.kind # "None"
    THEN {IF thread # 0
          THEN [error |-> None, value |-> thread, rows |-> rows]
          ELSE [error |-> None, value |-> Len(rows) + 1,
                rows |-> Append(rows,
                            ImapThread(message.g_thrid, namespace,
                                       message.received_date, {}))] :
          thread \in _choose_existing_thread_for_gmail(message, rows)}
    ELSE {[error |-> "UnboundLocalError", value |-> 0, rows |-> rows]}

\* ------------------------------------------------- the threads and messages
ImapThreads ==
    {ImapThread(GThrid(7), n, d, {h}) :
        n \in {1, 2}, d \in {1, 2}, h \in {"h1", "h2"}}
        \cup {ImapThread(GThrid(8), 1, 1, {"h1"}), ImapThread(Absent, 1, 1, {"h1"})}

MaxThreads == 2

ThreadTables == SeqsUpTo(ImapThreads, MaxThreads)

\* A message of namespace 1 that arrives: the row of its thread (0 for
\* None), its X-GM-THRID and its In-Reply-To header
GmailMessages(rows) ==
    {[thread |-> t, g_thrid |-> g, in_reply_to |-> r, namespace_id |-> 1,
      received_date |-> 3] :
        t \in 0..Len(rows), g \in {Absent, GThrid(7)},
        r \in {None, "", "h2", "h9"}}

InitThreads ==
    /\ events = <<>>
    /\ actions = <<>>
    /\ ncalls = 0
    /\ call = NoCall
    /\ pre = [events |-> <<>>, actions |-> <<>>]
    /\ once = <<>>
    /\ workers = <<>>
    /\ base = <<>>
    /\ ics = NoDocument
    /\ parsed = NotParsed
    /\ raised = None
    /\ outbox = <<>>
    /\ returned = NotReturned
    /\ threads \in ThreadTables

FromGmailMessage(namespace, message) ==
    /\ call = NoCall
    /\ \E r \in from_gmail_message(threads, namespace, message) :
          /\ raised' = r.error
          /\ returned' = [error |-> r.error, value |-> r.value]
          /\ threads' = r.rows
    /\ call' = [op |-> "from_gmail_message", namespace |-> namespace,
                rows |-> threads, message |-> message, batch |-> <<>>]
    /\ UNCHANGED <<events, actions, ncalls, pre, once, workers, base, ics,
                   parsed, outbox>>

NextThreads == \E message \in GmailMessages(threads) : FromGmailMessage(1, message)

SpecThreads == InitThreads /\ [][NextThreads]_vars

\* ================================================================= claims
BatchIdx == 1..Len(call.batch)
PreRows == 1..Len(pre.events)
InvitesCalled == call.op = "process_invites"
RsvpsCalled == call.op = "process_nylas_rsvps"

Max(S) == CHOOSE x \in S : \A y \in S : y <= x

\* The invites of the call that carry the uid of row i, and those of them
\* whose sequence number is not below the stored one
Incoming(i) == {k \in BatchIdx : call.batch[k].uid = pre.events[i].uid}
NotLower(i) ==
    {k \in Incoming(i) :
        pre.events[i].sequence_number <= call.batch[k].sequence_number}
EmailedRow(i) == pre.events[i].calendar = EmailedCalendar
SoleRow(i) == InviteCandidates(pre.events, pre.events[i].uid) = {i}

HoldsContentOf(row, event) ==
    /\ row.raw_data = event.raw_data
    /\ row.title = event.title
    /\ row.start = event.start
    /\ row.end = event.end

\* C1: once a stored event holds the content of an invite with sequence
\* number s, it never afterwards holds the content of an invite with a
\* sequence number below s.
C1_Monotonic ==
    [][\A i \in 1..Len(events) :
          events[i].calendar = EmailedCalendar
              => events'[i].raw_data.sequence >= events[i].raw_data.sequence]_vars

\* C2: an invite for a stored uid changes the stored event iff the stored
\* sequence number is <= the incoming one; a strictly lower invite leaves the
\* stored event (fields, participants, message) as it was.
C2_AcceptIffNotLower ==
    InvitesCalled =>
        \A i \in PreRows :
            /\ (~EmailedRow(i) \/ NotLower(i) = {}) => events[i] = pre.events[i]
            /\ (EmailedRow(i) /\ SoleRow(i) /\ NotLower(i) # {}) =>
                  /\ events[i].message = call.message
                  /\ \E k \in NotLower(i) : HoldsContentOf(events[i], call.batch[k])
                  /\ Cardinality(Incoming(i)) = 1 =>
                        HoldsContentOf(events[i], call.batch[Max(NotLower(i))])

C2_Witness ==
    /\ InvitesCalled
    /\ \E i \in PreRows :
          /\ EmailedRow(i)
          /\ Incoming(i) # {}
          /\ NotLower(i) = {}
          /\ events[i] = pre.events[i]
          /\ pre.events[i].message # call.message

\* C3: on acceptance every mutable field of the stored event equals that of
\* the incoming event: title, description, location, start, end, all_day,
\* recurrence, status, last_modified and sequence_number.
C3_AllFieldsOverwritten ==
    (InvitesCalled /\ once = <<>>) =>
        \A i \in PreRows :
            (EmailedRow(i) /\ SoleRow(i) /\ Cardinality(Incoming(i)) = 1
                 /\ NotLower(i) # {}) =>
                LET event == call.batch[Max(NotLower(i))]
                IN /\ events[i].title = event.title
                   /\ events[i].description = event.description
                   /\ events[i].location = event.location
                   /\ events[i].start = event.start
                   /\ events[i].end = event.end
                   /\ events[i].all_day = event.all_day
                   /\ events[i].recurrence = event.recurrence
                   /\ events[i].status = event.status
                   /\ events[i].last_modified = event.last_modified
                   /\ events[i].sequence_number = event.sequence_number

\* C4: reconciling the same invites a second time leaves the event table as
\* the first reconciliation left it.
C4_Idempotent == once # <<>> => events = once

\* The event tables that running the two deliveries one after the other, in
\* either order, can leave
SerialOutcomes ==
    LET after(w1, w2) ==
            UNION {process_invites(r, workers[w2].message, workers[w2].invites) :
                      r \in process_invites(base, workers[w1].message,
                                            workers[w1].invites)}
    IN after(1, 2) \cup after(2, 1)

\* C5: two concurrent reconciliations of one uid leave the event table that
\* one of the two serial orders leaves, whatever the interleaving of their
\* lookups and writes: no update is lost, no second event is stored.
C5_Serializable ==
    (\A w \in Deliveries : workers[w].pc = "done") => events \in SerialOutcomes

\* The row of the stored event the k-th RSVP of the call is correlated
\* with, 0 when there is none
RsvpRow(k) ==
    LET rows == {i \in PreRows :
                    /\ pre.events[i].calendar # EmailedCalendar
                    /\ pre.events[i].public_id = CleanupNylasUid(call.batch[k].uid)
                    /\ pre.events[i].public_id \in RsvpNewUids(call.batch)}
    IN IF rows = {} THEN 0 ELSE CHOOSE i \in rows : TRUE

SameSequence(k) ==
    /\ RsvpRow(k) # 0
    /\ pre.events[RsvpRow(k)].sequence_number = call.batch[k].sequence_number

\* The increasing enumeration of a set of indices
RECURSIVE Ascending(_)
Ascending(K) ==
    IF K = {} THEN <<>>
    ELSE LET m == CHOOSE x \in K : \A y \in K : x <= y
         IN <<m>> \o Ascending(K \ {m})

\* The rows the call added, without the public ids they were given
NewRows ==
    [j \in 1..(Len(events) - Len(pre.events)) |->
        [events[Len(pre.events) + j] EXCEPT !.public_id = <<>>]]

\* The events of the call with indices K, linked to the message of the call
Recorded(K) ==
    LET ks == Ascending(K)
    IN [j \in 1..Len(ks) |-> [call.batch[ks[j]] EXCEPT !.message = call.message]]

RECURSIVE MergedWith(_, _)
MergedWith(participants, ks) ==
    IF ks = <<>> THEN participants
    ELSE MergedWith(MergeInto(participants, call.batch[Head(ks)].participants),
                    Tail(ks))

\* C6 as stated: an RSVP correlated with a stored event changes its
\* participants iff the sequence numbers are equal, and an RSVP with another
\* sequence number is recorded with its message while the stored event stays
\* as it was.
C6_MismatchRecorded ==
    RsvpsCalled =>
        /\ \A i \in PreRows :
              events[i] = [pre.events[i] EXCEPT !.participants =
                  MergedWith(@, Ascending({k \in BatchIdx :
                                 RsvpRow(k) = i /\ SameSequence(k)}))]
        /\ NewRows = Recorded({k \in BatchIdx : ~SameSequence(k)})

\* C6 as amended: an RSVP correlated with a stored event changes its
\* participants iff the sequence numbers are equal; an RSVP with another
\* sequence number changes no field of the stored event and is dropped, only
\* the RSVPs correlated with no stored event are recorded with their message.
C6_MismatchDropped ==
    RsvpsCalled =>
        /\ \A i \in PreRows :
              events[i] = [pre.events[i] EXCEPT !.participants =
                  MergedWith(@, Ascending({k \in BatchIdx :
                                 RsvpRow(k) = i /\ SameSequence(k)}))]
        /\ NewRows = Recorded({k \in BatchIdx : RsvpRow(k) = 0})

C6_Witness ==
    /\ RsvpsCalled
    /\ \E k \in BatchIdx : RsvpRow(k) # 0 /\ ~SameSequence(k)
    /\ \E k \in BatchIdx : SameSequence(k)
    /\ Len(events) = Len(pre.events)
    /\ events # pre.events

\* C7: every accepted RSVP schedules an update_event action for the event it
\* updated, which lies outside the emailed-events calendar, and nothing else
\* schedules an action.
C7_ActionPerAcceptedRsvp ==
    /\ InvitesCalled => actions = pre.actions
    /\ RsvpsCalled =>
          LET ks == Ascending({k \in BatchIdx : SameSequence(k)})
          IN actions = pre.actions \o
                 [j \in 1..Len(ks) |->
                     [action |-> "update_event", record_id |-> RsvpRow(ks[j]),
                      calendar |-> pre.events[RsvpRow(ks[j])].calendar]]
    /\ \A j \in 1..Len(actions) :
          events[actions[j].record_id].calendar # EmailedCalendar

C7_Witness ==
    /\ RsvpsCalled
    /\ Len(actions) = Len(pre.actions) + 1
    /\ \E k \in BatchIdx : ~SameSequence(k)

\* The suffix test of the claim: the uid ends in @nylas.com, in any case
EndsWithNylas(uid) ==
    /\ Len(uid) >= Len(NylasSuffix)
    /\ SubSeq(Lower(uid), Len(uid) - Len(NylasSuffix) + 1, Len(uid)) = NylasSuffix

\* The row the claim correlates the k-th RSVP with, 0 when there is none
ClaimedRow(k) ==
    LET uid == call.batch[k].uid
        id == DropLast(Lower(uid), Len(NylasSuffix))
        rows == {i \in PreRows : /\ pre.events[i].calendar # EmailedCalendar
                                 /\ pre.events[i].public_id = id}
    IN IF EndsWithNylas(uid) /\ valid_base36(id) /\ rows # {}
       THEN CHOOSE i \in rows : TRUE
       ELSE 0

\* C8: an RSVP is correlated with the stored event whose public id is its
\* uid, case-folded and without the @nylas.com suffix; an RSVP without the
\* suffix or with an id that is no base36 id is correlated with nothing and
\* changes no stored event.
C8_Correlation ==
    RsvpsCalled =>
        /\ \A k \in BatchIdx : RsvpRow(k) = ClaimedRow(k)
        /\ NewRows = Recorded({k \in BatchIdx : ClaimedRow(k) = 0})
        /\ \A i \in PreRows :
              (\A k \in BatchIdx : ClaimedRow(k) # i) => events[i] = pre.events[i]

Emails(participants) == {participants[j].email : j \in 1..Len(participants)}

\* C9: a field of a stored participant that no incoming participant with the
\* same email supplies is the same after the reconciliation.
C9_UnmentionedFieldsKept ==
    (InvitesCalled \/ RsvpsCalled) =>
        \A i \in PreRows :
            \A j \in 1..Len(pre.events[i].participants) :
                LET old == pre.events[i].participants[j]
                    supplied(f) ==
                        \E k \in BatchIdx :
                            \E n \in 1..Len(call.batch[k].participants) :
                                /\ call.batch[k].participants[n].email = old.email
                                /\ call.batch[k].participants[n][f] # None
                IN \E n \in 1..Len(events[i].participants) :
                      /\ events[i].participants[n].email = old.email
                      /\ \A f \in ParticipantFields :
                            ~supplied(f) => events[i].participants[n][f] = old[f]

C9_Witness ==
    /\ InvitesCalled
    /\ \E i \in PreRows :
          /\ NotLower(i) # {}
          /\ EmailedRow(i)
          /\ \E j \in 1..Len(pre.events[i].participants) :
                /\ pre.events[i].participants[j].notes = "Guests: 2"
                /\ events[i].participants[j].notes = "Guests: 2"
                /\ events[i].participants[j].status # pre.events[i].participants[j].status
                /\ \A k \in Incoming(i) :
                      \E n \in 1..Len(call.batch[k].participants) :
                          /\ call.batch[k].participants[n].email =
                                 pre.events[i].participants[j].email
                          /\ call.batch[k].participants[n].notes = None

\* C10: the participant emails of a stored event only grow.
C10_ParticipantsKept ==
    [][\A i \in 1..Len(events) :
          Emails(events[i].participants) \subseteq Emails(events'[i].participants)]_vars

C10_Witness ==
    /\ InvitesCalled
    /\ \E i \in PreRows :
          /\ EmailedRow(i)
          /\ NotLower(i) # {}
          /\ \E e \in Emails(pre.events[i].participants) :
                /\ \A k \in Incoming(i) : e \notin Emails(call.batch[k].participants)
                /\ e \in Emails(events[i].participants)

\* --------------------------------------------------------------- C11
ImportCalled == call.op = "import_attached_events"

\* The attached event files of the call that events_from_ics parses
Parses(account, part_data) ==
    /\ part_data # EmptyData
    /\ events_from_ics(Namespace(account), EmailedCalendar, part_data).error = None

ParsedParts ==
    SelectSeq(call.message.attached_event_files,
              LAMBDA part_data : Parses(call.account, part_data))

\* C11: when import_attached_events goes through the attached event files of
\* a message, no exception of the parser escapes to the caller, and the
\* event table and the action log are left as by the same call on the
\* message without the files the parser fails on: a failing file changes
\* nothing, every other file is parsed and reconciled.
C11_BatchIndependence ==
    (ImportCalled /\ ~ReturnsEarly(call.account, call.message)) =>
        /\ raised = None
        /\ \E r \in import_attached_events(
                        pre.events, pre.actions, call.account,
                        [call.message EXCEPT
                            !.attached_event_files = ParsedParts]) :
              r.store = events /\ r.log = actions

\* --------------------------------------------------------------- C12
\* The sender of the message is the account itself
OwnMessage ==
    /\ call.message.from_addr.kind # "None"
    /\ Len(call.message.from_addr.value) > 0
    /\ Len(call.message.from_addr.value[1]) > 1
    /\ call.message.from_addr.value[1][2] = call.account.email_address

\* The message has no sender address, or an empty one
NoSender ==
    \/ call.message.from_addr.kind = "None"
    \/ Len(call.message.from_addr.value) = 0
    \/ Len(call.message.from_addr.value[1]) = 1
    \/ call.message.from_addr.value[1][2] = ""

\* C12: when the sender of the message is the account, or the message has an
\* empty or missing sender address, import_attached_events leaves the event
\* table and the action log as they were.
C12_OwnMessageGuard ==
    (ImportCalled /\ (OwnMessage \/ NoSender)) =>
        events = pre.events /\ actions = pre.actions

\* --------------------------------------------------------------- C13
ParserRan == parsed.error # "not run"

\* The events events_from_ics returned, and the VEVENTs of the document
Returned == parsed.invites \o parsed.rsvps
VEventsOf(document) ==
    SelectSeq(document.components, LAMBDA component : component.name = "VEVENT")

\* The document of one VEVENT, handed to the parser on its own
Alone(component) ==
    events_from_ics(Namespace(Account("eas")), EmailedCalendar,
                    Calendar(ics.method, <<component>>))

\* C13: events_from_ics returns events that all have a non-empty uid, a
\* last-modified timestamp and a start and an end of the same kind, or it
\* raises and returns no event; when a VEVENT of the document cannot be
\* parsed no event of the document is returned; a document from_ical cannot
\* take apart fails with MalformedEventError.
C13_AtomicParse ==
    ParserRan =>
        /\ parsed.error # None => Returned = <<>>
        /\ \A i \in 1..Len(Returned) :
              LET vevent == Returned[i].raw_data
              IN /\ Returned[i].uid # <<>>
                 /\ vevent.dtstamp.kind # "None" \/ vevent.last_modified.kind # "None"
                 /\ vevent.dtstart.kind = vevent.dtend.kind
        /\ (\E i \in 1..Len(VEventsOf(ics)) :
                Alone(VEventsOf(ics)[i]).error # None) => parsed.error # None
        /\ ics.from_ical # "ok" => parsed.error = "MalformedEventError"

\* --------------------------------------------------------------- C14
\* C14: in every event events_from_ics returns all_day is true exactly when
\* DTSTART and DTEND are both dates, and a VEVENT with a date-time on one
\* side and a date on the other makes the parse fail.
C14_SameKind ==
    ParserRan =>
        /\ \A i \in 1..Len(Returned) :
              LET vevent == Returned[i].raw_data
              IN Returned[i].all_day <=>
                    (vevent.dtstart.kind = "date" /\ vevent.dtend.kind = "date")
        /\ (\E i \in 1..Len(VEventsOf(ics)) :
                {VEventsOf(ics)[i].dtstart.kind, VEventsOf(ics)[i].dtend.kind}
                    = {"date", "datetime"}) => parsed.error # None

\* --------------------------------------------------------------- C15
RawData(list) == [i \in 1..Len(list) |-> list[i].raw_data]

\* C15: when the parse succeeds, the invites are the VEVENTs of the
\* document, once each and in order, if the METHOD of the calendar is REQUEST
\* or CANCEL and none otherwise; the rsvps are the VEVENTs if the METHOD is
\* REPLY and none otherwise.
C15_Classification ==
    (ParserRan /\ parsed.error = None) =>
        /\ RawData(parsed.invites) =
              IF ics.method \in {"REQUEST", "CANCEL"} THEN VEventsOf(ics) ELSE <<>>
        /\ RawData(parsed.rsvps) =
              IF ics.method = "REPLY" THEN VEventsOf(ics) ELSE <<>>

C15_Witness ==
    /\ ParserRan
    /\ parsed.error = None
    /\ \/ ics.method = "REPLY" /\ Len(parsed.rsvps) = 2 /\ parsed.invites = <<>>
       \/ ics.method = "CANCEL" /\ Len(parsed.invites) = 2 /\ parsed.rsvps = <<>>

\* --------------------------------------------------------------- C16
IsCancel(method) == method # None /\ LowerText(method) = "cancel"

\* The status the resolution order gives a VEVENT
ResolvedStatus(vevent) ==
    IF vevent.status.kind # "None" THEN LowerText(vevent.status.value)
    ELSE IF vevent.method.kind # "None" /\ IsCancel(vevent.method.value)
         THEN "cancelled"
         ELSE IF IsCancel(ics.method) THEN "cancelled" ELSE "confirmed"

\* C16: every event events_from_ics returns has the status of the resolution
\* order (the lower-cased STATUS, else cancelled by the METHOD of the event,
\* else cancelled by the METHOD of the calendar, else confirmed), that status
\* is confirmed, cancelled or tentative, and a VEVENT with any other STATUS
\* makes the parse fail.
C16_StatusResolution ==
    ParserRan =>
        /\ \A i \in 1..Len(Returned) :
              /\ Returned[i].status = ResolvedStatus(Returned[i].raw_data)
              /\ Returned[i].status \in {"confirmed", "cancelled", "tentative"}
        /\ (\E i \in 1..Len(VEventsOf(ics)) :
                /\ VEventsOf(ics)[i].status.kind # "None"
                /\ LowerText(VEventsOf(ics)[i].status.value)
                       \notin {"confirmed", "cancelled", "tentative"})
              => parsed.error # None

C16_Witness ==
    /\ ParserRan
    /\ Len(Returned) = 1
    /\ Returned[1].raw_data.status.kind = "None"
    /\ Returned[1].raw_data.method.kind # "None"
    /\ IsCancel(Returned[1].raw_data.method.value)
    /\ ~IsCancel(ics.method)
    /\ Returned[1].status = "cancelled"

\* --------------------------------------------------------------- C17
\* The document is one VEVENT whose start and end raise nothing
OneVEvent ==
    /\ ics.from_ical = "ok"
    /\ Len(ics.components) = 1
    /\ ics.components[1].name = "VEVENT"
    /\ StartEnd(ics.components[1]).error = None

\* C17: last_modified of a returned event is its DTSTAMP when the DTSTAMP has
\* zone information and its LAST-MODIFIED when there is no DTSTAMP; a VEVENT
\* with neither fails with MalformedEventError; a VEVENT whose DTSTAMP has no
\* zone information fails with NotImplementedError, LAST-MODIFIED or not.
C17_LastModified ==
    ParserRan =>
        /\ \A i \in 1..Len(Returned) :
              LET vevent == Returned[i].raw_data
              IN IF vevent.dtstamp.kind # "None"
                 THEN /\ vevent.dtstamp.tzinfo # None
                      /\ Returned[i].last_modified =
                            vevent.dtstamp.sec - utcoffset(vevent.dtstamp.tzinfo)
                 ELSE Returned[i].last_modified = vevent.last_modified.sec
        /\ OneVEvent =>
              LET vevent == ics.components[1]
              IN /\ (vevent.dtstamp.kind = "None"
                        /\ vevent.last_modified.kind = "None")
                      => parsed.error = "MalformedEventError"
                 /\ (vevent.dtstamp.kind # "None" /\ vevent.dtstamp.tzinfo = None)
                      => parsed.error = "NotImplementedError"

\* --------------------------------------------------------------- C18
\* C18: the sequence_number of every returned event is the smaller of its
\* SEQUENCE and 2147483647, and a SEQUENCE above 2147483647 does not make
\* the parse fail.
C18_SequenceClamped ==
    ParserRan =>
        /\ \A i \in 1..Len(Returned) :
              LET n == Returned[i].raw_data.sequence
              IN /\ Returned[i].sequence_number <= MaxInt32
                 /\ IF GreaterThanMaxInt32(n)
                    THEN Returned[i].sequence_number = MaxInt32
                    ELSE /\ Returned[i].sequence_number \div Limb = n.hi
                         /\ Returned[i].sequence_number % Limb = n.lo
        /\ (/\ OneVEvent
            /\ ics.method = "REQUEST"
            /\ ics.components[1].sequence.kind # "None"
            /\ Alone([ics.components[1] EXCEPT !.sequence = vInt(0, 0)]).error = None)
              => Len(parsed.invites) = 1

C18_Witness ==
    /\ ParserRan
    /\ Len(Returned) = 1
    /\ GreaterThanMaxInt32(Returned[1].raw_data.sequence)
    /\ Returned[1].sequence_number = MaxInt32

\* --------------------------------------------------------------- C19
\* The invite generated for a stored event was parsed back
RoundTrip ==
    /\ call.op = "generate_icalendar_invite"
    /\ raised = None
    /\ ParserRan

\* Start, end and participant emails of the one event read back are those
\* of the stored event
SameTimesAndEmails ==
    /\ parsed.error = None
    /\ Len(Returned) = 1
    /\ Returned[1].start = call.event.start
    /\ Returned[1].end = call.event.end
    /\ [j \in 1..Len(Returned[1].participants) |->
           Returned[1].participants[j].email]
         = [j \in 1..Len(call.event.participants) |->
               call.event.participants[j].email]

\* C19 as stated: parsing the invite generated for a stored event whose
\* participants all have emails gives exactly one event with the uid, start,
\* end, title and participant emails of the stored event.
C19_RoundTripSameUid ==
    RoundTrip =>
        /\ SameTimesAndEmails
        /\ Returned[1].uid = call.event.uid
        /\ Returned[1].title = call.event.title

\* C19, amended: parsing the invite generated for a stored event whose
\* participants all have emails gives exactly one event with the start, end
\* and participant emails of the stored event; its uid is the public id of
\* the stored event followed by @nylas.com, and its title is the stored
\* title, the empty string when the stored event has none.
C19_RoundTrip ==
    RoundTrip =>
        /\ SameTimesAndEmails
        /\ Returned[1].uid = call.event.public_id \o NylasSuffix
        /\ Returned[1].title =
              IF call.event.title = None THEN "" ELSE call.event.title

C19_Witness ==
    /\ RoundTrip
    /\ call.invite_type = "request"
    /\ call.event.title = None
    /\ Len(call.event.participants) = 2
    /\ Len(parsed.invites) = 1
    /\ parsed.invites[1].title = ""
    /\ parsed.invites[1].uid # call.event.uid

\* --------------------------------------------------------------- C20
\* Every participant of the event of the call has an email
AllHaveEmails ==
    \A j \in 1..Len(call.event.participants) :
        call.event.participants[j].email \notin {None, ""}

\* C20: generate_icalendar_invite succeeds for the kinds request, update and
\* cancel, with METHOD REQUEST for request and update and METHOD CANCEL for
\* cancel, and a UID made of the public id of the event alone; the calendar
\* of _generate_rsvp has METHOD REPLY.
C20_GeneratedMethod ==
    /\ (call.op = "generate_icalendar_invite" /\ AllHaveEmails) =>
          /\ raised = None
          /\ ics.method = IF call.invite_type = "cancel" THEN "CANCEL"
                          ELSE "REQUEST"
          /\ Len(ics.components) = 1
          /\ ics.components[1].uid = vText(call.event.public_id \o NylasSuffix)
    /\ call.op = "generate_rsvp" => ics.method = "REPLY"


\* ------------------------------------------------------------------ C26
\* The rows of a store that lie in the emailed-events calendar hold pairwise
\* different uids
OnePerUid(store) ==
    \A i, j \in 1..Len(store) :
        (/\ store[i].calendar = EmailedCalendar
         /\ store[j].calendar = EmailedCalendar
         /\ store[i].uid = store[j].uid) => i = j

\* C26: a process_invites call on a store whose emailed-events calendar holds
\* at most one event per uid leaves a store whose emailed-events calendar
\* holds at most one event per uid, also when the batch repeats a new uid
C26_OnePerUid == (InvitesCalled /\ OnePerUid(pre.events)) => OnePerUid(events)


\* ------------------------------------------------------------------ C27
\* The stored events a process_nylas_rsvps call leaves differ from the ones
\* it found in their participants at most, the events of the emailed-events
\* calendar not at all, and only an event with an accepted RSVP differs
StoredFrame ==
    \A i \in PreRows :
        /\ [events[i] EXCEPT !.participants = pre.events[i].participants]
               = pre.events[i]
        /\ EmailedRow(i) => events[i] = pre.events[i]
        /\ events[i] # pre.events[i] =>
               \E k \in BatchIdx : RsvpRow(k) = i /\ SameSequence(k)

\* C27 as stated: process_nylas_rsvps creates no event in the emailed-events
\* calendar and modifies none of its events, and an accepted RSVP changes the
\* participants of the matched event and nothing else in the store.
C27_FrameNothingCreated ==
    RsvpsCalled =>
        /\ StoredFrame
        /\ \A j \in (Len(pre.events) + 1)..Len(events) :
              events[j].calendar # EmailedCalendar

\* C27, amended: process_nylas_rsvps modifies no event of the emailed-events
\* calendar, an accepted RSVP changes the participants of the matched event
\* and no other field and no other stored event, and the events the call
\* creates are the RSVPs that match no stored event, each linked to the
\* message and kept in the calendar the parser gave it.
C27_Frame ==
    RsvpsCalled =>
        /\ StoredFrame
        /\ Len(events) >= Len(pre.events)
        /\ \A j \in (Len(pre.events) + 1)..Len(events) :
              \E k \in BatchIdx :
                  /\ RsvpRow(k) = 0
                  /\ events[j].uid = call.batch[k].uid
                  /\ events[j].message = call.message
                  /\ events[j].calendar = call.batch[k].calendar

C27_Witness ==
    /\ RsvpsCalled
    /\ \E i \in PreRows : EmailedRow(i)
    /\ \E i \in PreRows : events[i].participants # pre.events[i].participants
    /\ Len(events) > Len(pre.events)
    /\ events[Len(events)].calendar = EmailedCalendar


\* ------------------------------------------------------------------ C29
\* The attached event files the loop gets to: those before the first one
\* whose exception no handler takes
RECURSIVE ReachedParts(_)
ReachedParts(parts) ==
    IF parts = <<>> THEN <<>>
    ELSE LET error == events_from_ics(Namespace(call.account), EmailedCalendar,
                                      Head(parts)).error
         IN IF Head(parts) # EmptyData /\ error # None /\ ~Handled(error)
            THEN <<>>
            ELSE <<Head(parts)>> \o ReachedParts(Tail(parts))

\* The outcomes of reconciling parsed files one after the other: the invites
\* of a file and, when with_rsvps holds, its RSVPs after them
RECURSIVE Reconciled(_, _, _, _)
Reconciled(store, log, parts, with_rsvps) ==
    IF parts = <<>> THEN {[store |-> store, log |-> log]}
    ELSE LET new_events == events_from_ics(Namespace(call.account),
                                           EmailedCalendar, Head(parts))
         IN UNION {
                LET r == IF with_rsvps
                         THEN process_nylas_rsvps(s, log, call.message.id,
                                                  new_events.rsvps)
                         ELSE [store |-> s, log |-> log]
                IN Reconciled(r.store, r.log, Tail(parts), with_rsvps) :
                s \in process_invites(store, call.message.id, new_events.invites) }

ReachedParsedParts ==
    SelectSeq(ReachedParts(call.message.attached_event_files),
              LAMBDA part_data : Parses(call.account, part_data))

\* C29: for a gmail account import_attached_events reconciles the invites of
\* the parsed files and no RSVP: no action is scheduled and no event outside
\* the emailed-events calendar changes; for any other provider it reconciles
\* the invites and then the RSVPs of each parsed file, file by file.
C29_GmailSkipsRsvps ==
    (ImportCalled /\ ~ReturnsEarly(call.account, call.message)) =>
        /\ [store |-> events, log |-> actions] \in
               Reconciled(pre.events, pre.actions, ReachedParsedParts,
                          call.account.provider # "gmail")
        /\ call.account.provider = "gmail" =>
               /\ actions = pre.actions
               /\ \A i \in PreRows : ~EmailedRow(i) => events[i] = pre.events[i]
               /\ \A j \in (Len(pre.events) + 1)..Len(events) :
                     \E k \in 1..Len(ReachedParsedParts) :
                         LET new_events == events_from_ics(
                                 Namespace(call.account), EmailedCalendar,
                                 ReachedParsedParts[k])
                         IN \E n \in 1..Len(new_events.invites) :
                                new_events.invites[n].uid = events[j].uid

\* A gmail account got a message with a reply to an invite it sent next to
\* an invite, and stored the invite
C29_Witness ==
    /\ ImportCalled
    /\ ~ReturnsEarly(call.account, call.message)
    /\ \E k \in 1..Len(ReachedParsedParts) :
          Len(events_from_ics(Namespace(call.account), EmailedCalendar,
                              ReachedParsedParts[k]).rsvps) > 0
    /\ call.account.provider = "gmail"
    /\ Len(events) > Len(pre.events)


\* ------------------------------------------------------------------ C21
SendCalled == call.op = "send_rsvp"

\* The address of the sender of the message the invite came with
SenderOf(event) == event.message.from_addr.value[1][2]

\* C21: the reply send_rsvp sends goes to the sender of the invite's message,
\* and to the organizer's address when that sender is the iCloud no-reply
\* address; the recipient the mail is sent to is the address of its To header.
C21_ReplyTarget ==
    (SendCalled /\ raised = None) =>
        LET mail == outbox[Len(outbox)]
            target == IF SenderOf(call.event) = ICloudNoReply
                      THEN call.organizer_email
                      ELSE SenderOf(call.event)
        IN /\ mail.headers.To = target
           /\ mail.recipients = <<mail.headers.To>>


\* ------------------------------------------------------- C22, C23, C24, C28
AllEventsCalled == call.op = "all_events" /\ returned.error = None

\* The list all_events returned, the overrides its query fetched, and the
\* InflatedEvents of the occurrences in the window
Result == returned.value
Fetched == FetchedOverrides(call.overrides, call.start, call.end)
Inflations == inflate(call.self, call.start, call.end, call.tz).value

Occurs(e) == Cardinality({i \in 1..Len(Result) : Result[i] = e})

\* C22: the occurrences all_events returns have pairwise different uids, and
\* when a fetched override has the uid computed for an inflated occurrence,
\* the override is in the result and the inflated occurrence is not, wherever
\* the override was moved to.
C22_UniqueUids ==
    AllEventsCalled =>
        /\ \A i, j \in 1..Len(Result) :
              Result[i].uid = Result[j].uid => i = j
        /\ \A o \in 1..Len(Fetched), n \in 1..Len(Inflations) :
              Fetched[o].uid = Inflations[n].uid =>
                  /\ Occurs(Fetched[o]) = 1
                  /\ Occurs(Inflations[n]) = 0

\* A fetched override that was moved stands for an occurrence of the window
C22_Witness ==
    /\ AllEventsCalled
    /\ Len(Result) > 1
    /\ \E o \in 1..Len(Fetched), n \in 1..Len(Inflations) :
          /\ Fetched[o].uid = Inflations[n].uid
          /\ Fetched[o].start # Fetched[o].original_start_time


\* The InflatedEvents whose uid no fetched override has
NotSuppressed ==
    SelectSeq(Inflations,
              LAMBDA e : \A o \in 1..Len(Fetched) : Fetched[o].uid # e.uid)

\* C24: all_events returns the fetched overrides and the inflated occurrences
\* whose uid no fetched override has, each exactly once and nothing else,
\* in ascending order of start.
C24_SortedUnion ==
    AllEventsCalled =>
        /\ \A i \in 1..(Len(Result) - 1) : Result[i].start <= Result[i + 1].start
        /\ \A o \in 1..Len(Fetched) : Occurs(Fetched[o]) = 1
        /\ \A n \in 1..Len(NotSuppressed) : Occurs(NotSuppressed[n]) = 1
        /\ Len(Result) = Len(Fetched) + Len(NotSuppressed)

\* An override moved behind a later occurrence is returned after it
C24_Witness ==
    /\ AllEventsCalled
    /\ Len(Fetched) > 0
    /\ Len(NotSuppressed) > 0
    /\ \E i \in 1..Len(Result) :
          /\ Result[i].kind = "RecurringEventOverride"
          /\ \E j \in 1..(i - 1) :
                /\ Result[j].kind = "InflatedEvent"
                /\ Result[j].start < Result[i].start
                /\ Result[j].uid[3] > Result[i].uid[3]


\* C28: when the master has a persisted override for an occurrence, the list
\* all_events returns holds no InflatedEvent with the uid of that occurrence,
\* whatever the window is and wherever the override was moved to.
C28_NoSupersededOccurrence ==
    AllEventsCalled =>
        \A o \in 1..Len(call.overrides), i \in 1..Len(Result) :
            Result[i].kind = "InflatedEvent" =>
                Result[i].uid # call.overrides[o].uid

\* C23: the InflatedEvent of an occurrence start s without offset starts at s
\* as a naive UTC datetime and ends at s + (master.end - master.start), for a
\* timed and for an all-day master; a start with an offset raises an
\* exception and gives no event.
C23_DurationPreserved ==
    call.op = "InflatedEvent" =>
        LET s == call.instance_start
            master == call.event
        IN IF s.tzinfo = None \/ utcoffset(s.tzinfo) = 0
           THEN /\ returned.error = None
                /\ returned.value.start = s.sec
                /\ returned.value.end = s.sec + (master.end - master.start)
           ELSE returned.error # None


\* ------------------------------------------------------------------ C25
FromGmailCalled == call.op = "from_gmail_message"

\* C25: from_gmail_message raises nothing and returns a thread: the thread
\* of the message when it has one, otherwise a thread that existed with the
\* g_thrid and the namespace of the message, or a new one; also for a
\* message without a thread and without a g_thrid.
C25_AlwaysAThread ==
    FromGmailCalled =>
        /\ raised = None
        /\ returned.value \in 1..Len(threads)
        /\ call.message.thread # 0 => returned.value = call.message.thread
        /\ call.message.thread = 0 =>
              \/ /\ returned.value \in 1..Len(call.rows)
                 /\ call.rows[returned.value].g_thrid = call.message.g_thrid
                 /\ call.rows[returned.value].namespace_id
                        = call.message.namespace_id
                 /\ threads = call.rows
              \/ /\ returned.value = Len(call.rows) + 1
                 /\ Len(threads) = Len(call.rows) + 1

====
